---- MODULE Spec2Model ----
(***************************************************************************)
(* Verification model of the CanneX assistance cane (src/src).             *)
(*                                                                         *)
(*   RangingSpec : CanneApp.obstacle_detection_loop (main.py), one action  *)
(*                 per loop iteration, with the stop signal.               *)
(*   SensorSpec  : UltrasonicSensor.measure_distance (ultrasonic.py), one  *)
(*                 action per clock reading / echo poll.                   *)
(*   LinkSpec    : BluetoothManager and USBManager (connectivity/), the    *)
(*                 accept loop, the reader threads, command dispatch,      *)
(*                 broadcast and the orchestrator's command handlers.      *)
(*                                                                         *)
(* Time in RangingSpec is counted in ticks of 0.1 s, time in SensorSpec in *)
(* microseconds, distances in RangingSpec in centimetres and distances in  *)
(* SensorSpec in hundredths of a centimetre (two decimals).                *)
(***************************************************************************)
EXTENDS Integers, Sequences, FiniteSets, TLC

\* Python's None and a present value: an optional value is <<>> or <<v>>
None == <<>>
Some(v) == <<v>>
Val(o) == o[1]

Abs(x) == IF x < 0 THEN -x ELSE x

(***************************************************************************)
(* Program constants of the ranging loop (0.1 s ticks, centimetres).       *)
(***************************************************************************)
DangerDistance == 50
WarningDistance == 100
MaxDistance == 300
MeasureInterval == 10
BroadcastInterval == 10
AlertInterval == 30
ChangeThreshold == 10
BackoffTicks == 1

(***************************************************************************)
(* Bounds of the ranging model.                                            *)
(***************************************************************************)
\* the clock is followed for MaxTime ticks after the loop starts
MaxTime == 115
\* one measurement (trigger, echo, bookkeeping) takes 1..MaxMeasureTicks ticks
MaxMeasureTicks == 1
\* Timeout samples followed per run of the loop
MaxTimeouts == 1

\* time.time() is seconds since the epoch: far beyond both intervals
EpochStart == AlertInterval + BroadcastInterval + 1

\* distances a valid sample can carry: below danger_cm, at danger_cm and at
\* warning_cm; pairs that differ by nothing, by exactly ChangeThreshold and by
\* more
Distances == {40, DangerDistance, WarningDistance}

VARIABLES
    \* ---- CanneApp ----
    running,              \* CanneApp.running
    stop_event,           \* CanneApp.stop_event
    bt_is_running,        \* BluetoothManager.is_running
    usb_is_running,       \* USBManager.is_running
    \* ---- obstacle_detection_loop: position and locals ----
    obs_pc,               \* "idle" | "loop" | "exited"
    now,                  \* wall clock, ticks
    last_distance,        \* local last_distance
    last_alert_time,      \* local last_alert_time
    last_broadcast_time,  \* local last_broadcast_time
    \* ---- what the last iteration did (observation) ----
    it,                   \* record, see ItNone
    hist                  \* history of the run, see HistInit

rangingVars == <<running, stop_event, bt_is_running, usb_is_running, obs_pc,
                 now, last_distance, last_alert_time, last_broadcast_time,
                 it, hist>>

(***************************************************************************)
(* obstacle_detection_loop: the decisions of one iteration.                *)
(***************************************************************************)

\* while not self.stop_event.is_set() and self.running
LoopContinues(stopEvt, run) == ~stopEvt /\ run

\* variant: the broadcast waits for the alert interval
BroadcastDueAlertInterval(t, lbt) == t - lbt > AlertInterval

\* if current_time - last_broadcast_time > 1.0
BroadcastDue(t, lbt) == t - lbt > BroadcastInterval

\* variant: a change of exactly the threshold opens the gate
GateOpenAtThreshold(ld, lat, d, t) ==
    \/ ld = None
    \/ (ld # None /\ Abs(d - Val(ld)) >= ChangeThreshold)
    \/ t - lat > AlertInterval

\* variant: no re-alert timer
GateOpenNoTimer(ld, lat, d, t) ==
    \/ ld = None
    \/ (ld # None /\ Abs(d - Val(ld)) > ChangeThreshold)

\* variant: the re-alert timer uses the broadcast interval
GateOpenShortInterval(ld, lat, d, t) ==
    \/ ld = None
    \/ (ld # None /\ Abs(d - Val(ld)) > ChangeThreshold)
    \/ t - lat > BroadcastInterval

\* if (last_distance is None or abs(distance - last_distance) > 10
\*     or current_time - last_alert_time > 3)
GateOpen(ld, lat, d, t) ==
    \/ ld = None
    \/ (ld # None /\ Abs(d - Val(ld)) > ChangeThreshold)
    \/ t - lat > AlertInterval

\* variant: the thresholds are inclusive
AlertLevelInclusive(d) ==
    IF d <= DangerDistance THEN "danger"
    ELSE IF d <= WarningDistance THEN "warning"
    ELSE "none"

\* if distance < DANGER_DISTANCE ... elif distance < WARNING_DISTANCE ...
AlertLevel(d) ==
    IF d < DangerDistance THEN "danger"
    ELSE IF d < WarningDistance THEN "warning"
    ELSE "none"

\* the alert one valid sample emits
AlertFor(ld, lat, d, t) ==
    IF GateOpen(ld, lat, d, t) THEN AlertLevel(d) ELSE "none"

\* the actuator calls of an alert, in call order
ActuatorCalls(alert) ==
    IF alert = "danger" THEN <<"speak_priority", "vibrate_danger">>
    ELSE IF alert = "warning" THEN <<"speak", "vibrate_warning">>
    ELSE <<>>

\* _broadcast_distance: the transports the payload is handed to
TransportsFor(btRun, usbRun) ==
    (IF btRun THEN {"bluetooth"} ELSE {}) \cup (IF usbRun THEN {"usb"} ELSE {})

\* last_alert_time = current_time, in both alert branches only
NextLastAlertTime(lat, t, alert) == IF alert # "none" THEN t ELSE lat

\* variant: last_distance follows the emitted alerts only
NextLastDistanceOnEmit(ld, d, alert) == IF alert # "none" THEN Some(d) ELSE ld

\* last_distance = distance, at the end of every iteration with a valid sample
NextLastDistance(ld, d, alert) == Some(d)

\* last_broadcast_time = current_time, when the broadcast is due
NextLastBroadcastTime(lbt, t) == IF BroadcastDue(t, lbt) THEN t ELSE lbt

(***************************************************************************)
(* Observation of the last iteration and history of the run.  Neither is   *)
(* read by the loop.                                                       *)
(***************************************************************************)
ItNone == [kind |-> "none", d |-> None, t |-> 0, gate |-> FALSE,
           alert |-> "none", calls |-> <<>>, bcast |-> FALSE, sent |-> {}]

\* d, t, alert: the last valid sample;  emit_t, emit_d: the last emitted alert;
\* run_*: the samples taken so far while every sample since the loop began
\* was valid and carried the same distance run_d ("const"), counted over the
\* first ten seconds after the first sample
HistInit == [d |-> None, alert |-> "none", emit_t |-> None, emit_d |-> None,
             timeouts |-> 0,
             run |-> "empty", run_d |-> 0, run_t0 |-> 0, run_n |-> 0,
             run_alerts |-> 0, run_bcasts |-> 0]

HistBroken == [run |-> "broken", run_d |-> 0, run_t0 |-> 0, run_n |-> 0,
               run_alerts |-> 0, run_bcasts |-> 0]

RunWindow == 10 * MeasureInterval

One(b) == IF b THEN 1 ELSE 0

HistAfterValid(h, d, t, alert, due) ==
    LET base == [h EXCEPT !.d = Some(d), !.alert = alert,
                          !.emit_t = IF alert # "none" THEN Some(t) ELSE h.emit_t,
                          !.emit_d = IF alert # "none" THEN Some(d) ELSE h.emit_d]
    IN  IF h.run = "empty"
        THEN [base EXCEPT !.run = "const", !.run_d = d, !.run_t0 = t, !.run_n = 1,
                          !.run_alerts = One(alert # "none"),
                          !.run_bcasts = One(due)]
        ELSE IF h.run = "broken" \/ h.run_d # d
        THEN [f \in DOMAIN base |->
                 IF f \in DOMAIN HistBroken THEN HistBroken[f] ELSE base[f]]
        ELSE IF t - h.run_t0 < RunWindow
        THEN [base EXCEPT !.run_n = h.run_n + 1,
                          !.run_alerts = h.run_alerts + One(alert # "none"),
                          !.run_bcasts = h.run_bcasts + One(due)]
        ELSE base

HistAfterTimeout(h) ==
    [f \in DOMAIN h |-> IF f \in DOMAIN HistBroken THEN HistBroken[f]
                        ELSE IF f = "timeouts" THEN h.timeouts + 1 ELSE h[f]]

(***************************************************************************)
(* CanneApp.start / CanneApp.stop, as far as the ranging loop sees them.   *)
(***************************************************************************)

\* start(): running, stop_event, transports (each start may fail), then the
\* obstacle thread with its fresh locals
AppStart(btOk, usbOk) ==
    /\ ~running
    /\ obs_pc = "idle"
    /\ ~bt_is_running /\ ~usb_is_running
    /\ now < EpochStart + MaxTime
    /\ running' = TRUE
    /\ stop_event' = FALSE
    /\ bt_is_running' = btOk
    /\ usb_is_running' = usbOk
    /\ obs_pc' = "loop"
    /\ last_distance' = None
    /\ last_alert_time' = 0
    /\ last_broadcast_time' = 0
    /\ it' = ItNone
    /\ hist' = HistInit
    /\ UNCHANGED now

\* stop(): self.running = False; self.stop_event.set()
AppStopSignal ==
    /\ running
    /\ running' = FALSE
    /\ stop_event' = TRUE
    /\ UNCHANGED <<bt_is_running, usb_is_running, obs_pc, now, last_distance,
                   last_alert_time, last_broadcast_time, it, hist>>

\* stop(), after the join of the obstacle thread: bluetooth.stop(), usb.stop()
AppStopTransports ==
    /\ ~running /\ stop_event
    /\ obs_pc = "exited"
    /\ bt_is_running \/ usb_is_running
    /\ bt_is_running' = FALSE
    /\ usb_is_running' = FALSE
    /\ UNCHANGED <<running, stop_event, obs_pc, now, last_distance,
                   last_alert_time, last_broadcast_time, it, hist>>

(***************************************************************************)
(* obstacle_detection_loop: one action per loop iteration.                 *)
(***************************************************************************)

\* variant: a failed measurement ends the loop
ObstacleTimeoutBreak(m) ==
    /\ obs_pc = "loop"
    /\ LoopContinues(stop_event, running)
    /\ now < EpochStart + MaxTime
    /\ hist.timeouts < MaxTimeouts
    /\ now' = now + m + BackoffTicks
    /\ obs_pc' = "exited"
    /\ it' = [ItNone EXCEPT !.kind = "timeout", !.t = now + m]
    /\ hist' = [hist EXCEPT !.timeouts = @ + 1]
    /\ UNCHANGED <<running, stop_event, bt_is_running, usb_is_running,
                   last_distance, last_alert_time, last_broadcast_time>>

\* distance is None: time.sleep(0.1); continue
ObstacleTimeout(m) ==
    /\ obs_pc = "loop"
    /\ LoopContinues(stop_event, running)
    /\ now < EpochStart + MaxTime
    /\ hist.timeouts < MaxTimeouts
    /\ now' = now + m + BackoffTicks
    /\ it' = [ItNone EXCEPT !.kind = "timeout", !.t = now + m]
    /\ hist' = HistAfterTimeout(hist)
    /\ UNCHANGED <<running, stop_event, bt_is_running, usb_is_running, obs_pc,
                   last_distance, last_alert_time, last_broadcast_time>>

\* a valid sample d, read m ticks after the iteration began
ObstacleSample(d, m) ==
    /\ obs_pc = "loop"
    /\ LoopContinues(stop_event, running)
    /\ now < EpochStart + MaxTime
    /\ LET t     == now + m
           due   == BroadcastDue(t, last_broadcast_time)
           alert == AlertFor(last_distance, last_alert_time, d, t)
       IN  /\ last_broadcast_time' = NextLastBroadcastTime(last_broadcast_time, t)
           /\ last_alert_time' = NextLastAlertTime(last_alert_time, t, alert)
           /\ last_distance' = NextLastDistance(last_distance, d, alert)
           /\ now' = t + MeasureInterval
           /\ it' = [kind |-> "valid", d |-> Some(d), t |-> t,
                     gate |-> GateOpen(last_distance, last_alert_time, d, t),
                     alert |-> alert, calls |-> ActuatorCalls(alert),
                     bcast |-> due,
                     sent |-> IF due THEN TransportsFor(bt_is_running, usb_is_running)
                              ELSE {}]
           /\ hist' = HistAfterValid(hist, d, t, alert, due)
    /\ UNCHANGED <<running, stop_event, bt_is_running, usb_is_running, obs_pc>>

\* the while condition is false: the loop ends
ObstacleExit ==
    /\ obs_pc = "loop"
    /\ ~LoopContinues(stop_event, running)
    /\ obs_pc' = "exited"
    /\ UNCHANGED <<running, stop_event, bt_is_running, usb_is_running, now,
                   last_distance, last_alert_time, last_broadcast_time, it, hist>>

MeasureTicks == 1..MaxMeasureTicks

\* history of the danger alerts of a run; the loop does not read it
VARIABLES
    danger_alert_time   \* time of the last danger alert emitted, or None

alertVars == <<danger_alert_time>>

\* the time of the last danger alert after an iteration that emitted alert
\* at time t
NextDangerAlertTime(dat, t, alert) ==
    IF alert = "danger" THEN Some(t) ELSE dat

AlertInit == danger_alert_time = None

RangingInit ==
    /\ running = FALSE
    /\ stop_event = FALSE
    /\ bt_is_running = FALSE
    /\ usb_is_running = FALSE
    /\ obs_pc = "idle"
    /\ now = EpochStart
    /\ last_distance = None
    /\ last_alert_time = 0
    /\ last_broadcast_time = 0
    /\ it = ItNone
    /\ hist = HistInit


(***************************************************************************)
(* UltrasonicSensor.measure_distance (ultrasonic.py), microseconds and     *)
(* hundredths of a centimetre.                                             *)
(***************************************************************************)

\* 100 ms budget of each polling phase
EchoTimeout == 100000
\* distance = pulse_duration * 17150 cm/s, i.e. 343/200 hundredths per us
SoundNum == 343
SoundDen == 200

\* polls of the echo input followed in each phase before the clock is made
\* to pass the budget
MaxPolls == 2
\* level changes of the echo input followed in one measurement
MaxToggles == 2

\* time one statement can take: a microsecond, the pulse of an obstacle at
\* about 50 cm, a pulse ten microseconds short of max_distance, and more than
\* half the budget
Deltas == {1, 2920, 17490, 50001}

VARIABLES
    us_pc,           \* statement measure_distance is at
    clk,             \* clock, microseconds since the call began
    trig_pin,        \* level driven on the trigger output
    trig_log,        \* levels written to the trigger output by this call
    echo,            \* level of the echo input
    echo_changes,    \* level changes of the echo input during this call
    pulse_start,     \* local pulse_start
    pulse_end,       \* local pulse_end
    timeout_start,   \* local timeout_start
    polls,           \* iterations of the current polling loop so far
    us_result,       \* returned value: None or Some(hundredths of cm)
    us_obs           \* observation of the call, see ObsNone

sensorVars == <<us_pc, clk, trig_pin, trig_log, echo, echo_changes, pulse_start,
                pulse_end, timeout_start, polls, us_result, us_obs>>

\* phase: polling phase that timed out; elapsed: clock reading minus
\* timeout_start at that check; duration: pulse_end - pulse_start when a
\* distance was computed; rose/fell: the echo input went high / low again
\* during the call
ObsNone == [phase |-> "none", elapsed |-> 0, duration |-> None,
            rose |-> FALSE, fell |-> FALSE]

\* variant: the product is truncated instead of rounded
RoundHundredthsTruncate(d) == {(d * SoundNum) \div SoundDen}

\* round(pulse_duration * 17150, 2): the nearest hundredth; a product exactly
\* half way between two hundredths goes to either, depending on the binary
\* representation of the product
RoundHundredths(d) ==
    LET q == (d * SoundNum) \div SoundDen
        r == (d * SoundNum) % SoundDen
    IN  IF 2 * r < SoundDen THEN {q}
        ELSE IF 2 * r > SoundDen THEN {q + 1}
        ELSE {q, q + 1}

\* if distance > self.max_distance: return self.max_distance; return distance
Clamp(h, maxCm) == IF h > maxCm * 100 THEN Some(maxCm * 100) ELSE Some(h)

\* if time.time() - timeout_start > 0.1
TimedOut(t, ts) == t - ts > EchoTimeout

\* time taken by the statement being executed; after MaxPolls iterations of
\* a polling loop the statement that reads the clock for the budget check takes
\* long enough to end the phase
StepDeltas == Deltas
CheckDeltas == IF polls >= MaxPolls THEN {EchoTimeout + 1} ELSE Deltas

\* the echo input changes level (the sensor, or noise on the line)
EchoToggle ==
    /\ us_pc \notin {"idle", "done"}
    /\ echo_changes < MaxToggles
    /\ echo' = 1 - echo
    /\ echo_changes' = echo_changes + 1
    /\ us_obs' = IF echo = 0 THEN [us_obs EXCEPT !.rose = TRUE]
                 ELSE [us_obs EXCEPT !.fell = TRUE]
    /\ UNCHANGED <<us_pc, clk, trig_pin, trig_log, pulse_start, pulse_end,
                   timeout_start, polls, us_result>>

\* a call begins: GPIO.output(trig, False); time.sleep(0.01)
TrigSettle ==
    /\ us_pc = "idle"
    /\ us_pc' = "trig_high"
    /\ clk' = 10000
    /\ trig_pin' = 0
    /\ trig_log' = <<0>>
    /\ echo' = 0
    /\ echo_changes' = 0
    /\ pulse_start' = 0 /\ pulse_end' = 0 /\ timeout_start' = 0 /\ polls' = 0
    /\ us_result' = None
    /\ us_obs' = ObsNone

\* GPIO.output(trig, True); time.sleep(0.00001)
TrigHigh ==
    /\ us_pc = "trig_high"
    /\ us_pc' = "trig_low"
    /\ trig_pin' = 1
    /\ trig_log' = Append(trig_log, 1)
    /\ clk' = clk + 10
    /\ UNCHANGED <<echo, echo_changes, pulse_start, pulse_end, timeout_start,
                   polls, us_result, us_obs>>

\* variant: the trigger output is left high when the polling starts
TrigLowKept ==
    /\ us_pc = "trig_low"
    /\ us_pc' = "stamp_start"
    /\ UNCHANGED <<clk, trig_pin, trig_log, echo, echo_changes, pulse_start,
                   pulse_end, timeout_start, polls, us_result, us_obs>>

\* GPIO.output(trig, False)
TrigLow ==
    /\ us_pc = "trig_low"
    /\ us_pc' = "stamp_start"
    /\ trig_pin' = 0
    /\ trig_log' = Append(trig_log, 0)
    /\ UNCHANGED <<clk, echo, echo_changes, pulse_start, pulse_end,
                   timeout_start, polls, us_result, us_obs>>

\* pulse_start = time.time()
StampStart(dt) ==
    /\ us_pc = "stamp_start"
    /\ us_pc' = "stamp_budget1"
    /\ clk' = clk + dt
    /\ pulse_start' = clk'
    /\ UNCHANGED <<trig_pin, trig_log, echo, echo_changes, pulse_end,
                   timeout_start, polls, us_result, us_obs>>

\* timeout_start = time.time()
StampBudget1(dt) ==
    /\ us_pc = "stamp_budget1"
    /\ us_pc' = "rise_poll"
    /\ clk' = clk + dt
    /\ timeout_start' = clk'
    /\ polls' = 0
    /\ UNCHANGED <<trig_pin, trig_log, echo, echo_changes, pulse_start,
                   pulse_end, us_result, us_obs>>

\* while GPIO.input(self.echo_pin) == 0
RisePoll ==
    /\ us_pc = "rise_poll"
    /\ us_pc' = IF echo = 0 THEN "rise_stamp" ELSE "stamp_end"
    /\ polls' = IF echo = 0 THEN polls + 1 ELSE polls
    /\ UNCHANGED <<clk, trig_pin, trig_log, echo, echo_changes, pulse_start,
                   pulse_end, timeout_start, us_result, us_obs>>

\* pulse_start = time.time(), inside the loop
RiseStamp(dt) ==
    /\ us_pc = "rise_stamp"
    /\ us_pc' = "rise_check"
    /\ clk' = clk + dt
    /\ pulse_start' = clk'
    /\ UNCHANGED <<trig_pin, trig_log, echo, echo_changes, pulse_end,
                   timeout_start, polls, us_result, us_obs>>

\* variant: the budget of the rise phase is not enforced by a return
RiseCheckNoReturn(dt) ==
    /\ us_pc = "rise_check"
    /\ clk' = clk + dt
    /\ us_pc' = IF TimedOut(clk', timeout_start) THEN "stamp_end" ELSE "rise_poll"
    /\ UNCHANGED <<trig_pin, trig_log, echo, echo_changes, pulse_start,
                   pulse_end, timeout_start, polls, us_result, us_obs>>

\* if time.time() - timeout_start > 0.1: return None
RiseCheck(dt) ==
    /\ us_pc = "rise_check"
    /\ clk' = clk + dt
    /\ IF TimedOut(clk', timeout_start)
       THEN /\ us_pc' = "done"
            /\ us_result' = None
            /\ us_obs' = [us_obs EXCEPT !.phase = "rise",
                                        !.elapsed = clk' - timeout_start]
       ELSE /\ us_pc' = "rise_poll"
            /\ UNCHANGED <<us_result, us_obs>>
    /\ UNCHANGED <<trig_pin, trig_log, echo, echo_changes, pulse_start,
                   pulse_end, timeout_start, polls>>

\* pulse_end = time.time()
StampEnd(dt) ==
    /\ us_pc = "stamp_end"
    /\ us_pc' = "stamp_budget2"
    /\ clk' = clk + dt
    /\ pulse_end' = clk'
    /\ UNCHANGED <<trig_pin, trig_log, echo, echo_changes, pulse_start,
                   timeout_start, polls, us_result, us_obs>>

\* timeout_start = time.time(), second phase
StampBudget2(dt) ==
    /\ us_pc = "stamp_budget2"
    /\ us_pc' = "fall_poll"
    /\ clk' = clk + dt
    /\ timeout_start' = clk'
    /\ polls' = 0
    /\ UNCHANGED <<trig_pin, trig_log, echo, echo_changes, pulse_start,
                   pulse_end, us_result, us_obs>>

\* while GPIO.input(self.echo_pin) == 1
FallPoll ==
    /\ us_pc = "fall_poll"
    /\ us_pc' = IF echo = 1 THEN "fall_stamp" ELSE "compute"
    /\ polls' = IF echo = 1 THEN polls + 1 ELSE polls
    /\ UNCHANGED <<clk, trig_pin, trig_log, echo, echo_changes, pulse_start,
                   pulse_end, timeout_start, us_result, us_obs>>

\* pulse_end = time.time(), inside the loop
FallStamp(dt) ==
    /\ us_pc = "fall_stamp"
    /\ us_pc' = "fall_check"
    /\ clk' = clk + dt
    /\ pulse_end' = clk'
    /\ UNCHANGED <<trig_pin, trig_log, echo, echo_changes, pulse_start,
                   timeout_start, polls, us_result, us_obs>>

\* if time.time() - timeout_start > 0.1: return None
FallCheck(dt) ==
    /\ us_pc = "fall_check"
    /\ clk' = clk + dt
    /\ IF TimedOut(clk', timeout_start)
       THEN /\ us_pc' = "done"
            /\ us_result' = None
            /\ us_obs' = [us_obs EXCEPT !.phase = "fall",
                                        !.elapsed = clk' - timeout_start]
       ELSE /\ us_pc' = "fall_poll"
            /\ UNCHANGED <<us_result, us_obs>>
    /\ UNCHANGED <<trig_pin, trig_log, echo, echo_changes, pulse_start,
                   pulse_end, timeout_start, polls>>

\* pulse_duration = pulse_end - pulse_start; distance = round(... * 17150, 2);
\* clamp; return
Compute ==
    /\ us_pc = "compute"
    /\ us_pc' = "done"
    /\ \E h \in RoundHundredths(pulse_end - pulse_start) :
           us_result' = Clamp(h, MaxDistance)
    /\ us_obs' = [us_obs EXCEPT !.duration = Some(pulse_end - pulse_start)]
    /\ UNCHANGED <<clk, trig_pin, trig_log, echo, echo_changes, pulse_start,
                   pulse_end, timeout_start, polls>>

\* the call has returned; the sensor is ready for the next call
Return ==
    /\ us_pc = "done"
    /\ us_pc' = "idle"
    /\ UNCHANGED <<clk, trig_pin, trig_log, echo, echo_changes, pulse_start,
                   pulse_end, timeout_start, polls, us_result, us_obs>>

SensorInit ==
    /\ us_pc = "idle"
    /\ clk = 0
    /\ trig_pin = 0
    /\ trig_log = <<>>
    /\ echo = 0
    /\ echo_changes = 0
    /\ pulse_start = 0 /\ pulse_end = 0 /\ timeout_start = 0 /\ polls = 0
    /\ us_result = None
    /\ us_obs = ObsNone


(***************************************************************************)
(* BluetoothManager and USBManager (connectivity/), with the command       *)
(* handlers CanneApp registers on both (main.py).                          *)
(***************************************************************************)

\* connections the Bluetooth server accepts in one run
MaxConns == 2

\* socket handles, handed out in order
Socks == 1..MaxConns

\* client ids "address:port" of the peers that connect, in the order in
\* which they first connect
PeerSeq == <<"p1", "p2">>
PeerIds == {PeerSeq[i] : i \in DOMAIN PeerSeq}

\* received frames: registered commands, an unregistered command, a JSON
\* object without command, a JSON array, bytes that are not JSON
RawFrames == {"get_status", "start_system", "stop_system", "get_objects",
              "reboot", "{}", "[]", "garbage"}

\* self.command_handlers after _setup_bluetooth_handlers / _setup_usb_handlers
CommandTable == {"get_status", "start_system", "stop_system", "get_distance",
                 "get_objects"}

\* what the camera and the detector give a get_objects handler
DetectOutcomes == {"empty", "objects"}

VARIABLES
    clients,        \* BluetoothManager.clients, in insertion order:
                    \*   sequence of [id, sock]
    socks,          \* per socket handle: state, peer reachable, reader thread, id
    next_sock,      \* next socket handle accept() returns
    accept_pc,      \* accept thread: "none" | "running" | "exited"
    usb_conn,       \* USBManager.serial_conn: "none" | "open" | "closed"
    usb_reader,     \* USB read thread: "none" | "running" | "exited"
    stop_threads,   \* stop threads spawned by stop_system and not yet run
    stop_pc,        \* a running stop(): "idle" | "joining"
    op              \* observation of the last operation, see OpNone

linkVars == <<clients, socks, next_sock, accept_pc, usb_conn, usb_reader,
              stop_threads, stop_pc, op>>

\* stop threads pending at a time
MaxStopThreads == 1

\* loop time the link specification follows, in ticks
MaxLinkTime == 1

SockNone == [state |-> "unused", peer |-> FALSE, reader |-> "none", id |-> ""]

\* the last operation: its name; for a frame the transport, the socket it
\* came in on, the frame, the handler invoked, the response produced, the
\* handles it was written to and whether the data callback ran; for a
\* broadcast the table before it, the handles that could take a write, the
\* writes attempted in order and whether the serial line was written
OpNone == [name |-> "none", via |-> "none", sock |-> 0, raw |-> "",
           handler |-> "none", response |-> None, written |-> {},
           callback |-> FALSE, before |-> <<>>, up |-> {},
           attempted |-> <<>>, usb_written |-> FALSE]

TableIds(tbl) == {tbl[i].id : i \in DOMAIN tbl}
TableSocks(tbl) == {tbl[i].sock : i \in DOMAIN tbl}
TableIndex(tbl, id) == CHOOSE i \in DOMAIN tbl : tbl[i].id = id

\* self.clients[client_id] = {...}: a new key goes last, an existing key
\* keeps its place and takes the new value
TablePut(tbl, id, s) ==
    IF id \in TableIds(tbl)
    THEN [tbl EXCEPT ![TableIndex(tbl, id)] = [id |-> id, sock |-> s]]
    ELSE Append(tbl, [id |-> id, sock |-> s])

\* variant: the cleanup empties the table
TableDelAll(tbl, ids) == <<>>

\* del self.clients[client_id], guarded by "if client_id in self.clients"
TableDel(tbl, ids) == SelectSeq(tbl, LAMBDA e : e.id \notin ids)

\* socket.send succeeds on an open handle whose peer is reachable
SendOk(sk, s) == sk[s].state = "open" /\ sk[s].peer

(***************************************************************************)
(* Decoding and dispatch: _process_received_data.                          *)
(***************************************************************************)

\* json.loads(data.decode('utf-8')): "invalid" (JSONDecodeError), "other" (a
\* value that is not an object) or "object"
JsonKind(raw) ==
    IF raw = "garbage" THEN "invalid"
    ELSE IF raw = "[]" THEN "other"
    ELSE "object"

\* message.get("command", "")
CommandOf(raw) == IF raw = "{}" THEN "" ELSE raw

\* variant: an unregistered command is served by the start_system handler
HandlerForFallback(cmd) ==
    IF cmd \in CommandTable THEN cmd ELSE "start_system"

\* if command in self.command_handlers: ... else: error response
HandlerFor(cmd) == IF cmd \in CommandTable THEN cmd ELSE "none"

ErrUnknown(cmd) ==
    [status |-> "error", message |-> <<"Commande", cmd, "non reconnue">>]
ErrFormat == [status |-> "error", message |-> <<"Format de données invalide">>]
Success(msg) == [status |-> "success", message |-> <<msg>>]
Error(msg) == [status |-> "error", message |-> <<msg>>]

\* the attributes UltrasonicSensor.__init__ assigns; no method assigns
\* another one (the last distance is a local of obstacle_detection_loop)
SensorObject == [trig_pin |-> "TRIG_PIN", echo_pin |-> "ECHO_PIN",
                 max_distance |-> MaxDistance]

\* getattr(obj, name, None)
GetAttr(obj, name) == IF name \in DOMAIN obj THEN Some(obj[name]) ELSE None

\* _handle_bt_get_status
StatusResponse(run) ==
    [status |-> "success",
     data |-> [system_running |-> run,
               last_distance |-> GetAttr(SensorObject, "last_distance")]]

\* the response a handler returns, or "raise" when it raises
\* (_handle_bt_get_status .. _handle_bt_get_objects; the USB handlers
\* delegate to them)
HandlerResponse(h, cmd, run, det) ==
    CASE h = "none" -> Some(ErrUnknown(cmd))
      [] h = "get_status" -> Some(StatusResponse(run))
      [] h = "start_system" ->
            Some(Success(IF run THEN "Système déjà en cours d'exécution"
                         ELSE "Système démarré"))
      [] h = "stop_system" ->
            Some(Success(IF run THEN "Arrêt du système en cours"
                         ELSE "Système déjà arrêté"))
      [] h = "get_distance" -> Some(Success("distance"))
      [] h = "get_objects" ->
            IF det = "no_frame" THEN Some(Error("Impossible de capturer une image"))
            ELSE IF det = "empty" THEN Some(Success("objects"))
            ELSE None

\* the orchestrator after a handler ran on a transport thread:
\* start_system runs CanneApp.start() itself when the system is not running
\* (flags, both transports started unless already running, a fresh obstacle
\* thread); stop_system spawns a thread for CanneApp.stop()
HandlerEffect(h, btOk, usbOk) ==
    /\ IF h = "start_system" /\ ~running
       THEN /\ running' = TRUE
            /\ stop_event' = FALSE
            /\ bt_is_running' = (bt_is_running \/ btOk)
            /\ usb_is_running' = (usb_is_running \/ usbOk)
            /\ accept_pc' = IF ~bt_is_running /\ btOk THEN "running" ELSE accept_pc
            /\ usb_conn' = IF ~usb_is_running /\ usbOk THEN "open" ELSE usb_conn
            /\ usb_reader' = IF ~usb_is_running /\ usbOk THEN "running"
                             ELSE usb_reader
            /\ obs_pc' = "loop"
            /\ last_distance' = None
            /\ last_alert_time' = 0
            /\ last_broadcast_time' = 0
            /\ it' = ItNone
            /\ hist' = HistInit
       ELSE UNCHANGED <<running, stop_event, bt_is_running, usb_is_running,
                        accept_pc, usb_conn, usb_reader, obs_pc, last_distance,
                        last_alert_time, last_broadcast_time, it, hist>>
    /\ stop_threads' = IF h = "stop_system" /\ running
                       THEN stop_threads + 1 ELSE stop_threads
    /\ UNCHANGED <<now, stop_pc>>

\* what _process_received_data makes of one frame: the handler it invokes,
\* the response it hands to the transport's send (None: nothing is sent) and
\* whether the data callback is called; invalidResp is the transport's
\* answer to bytes that are not JSON
FrameOutcome(raw, det, run, invalidResp) ==
    LET kind == JsonKind(raw)
        cmd  == CommandOf(raw)
        h    == IF kind = "object" THEN HandlerFor(cmd) ELSE "none"
        resp == IF kind = "invalid" THEN invalidResp
                ELSE IF kind = "other" THEN None
                ELSE HandlerResponse(h, cmd, run, det)
    IN  [handler |-> h, response |-> resp,
         callback |-> (kind = "object" /\ resp # None)]

\* bluetooth.py: except json.JSONDecodeError answers "Format de données invalide"
BtInvalidResponse == Some(ErrFormat)

\* usb.py: except json.JSONDecodeError only logs
UsbInvalidResponse == None

\* the handle the serial line is written on
SerialLine == 0

\* send_to_client(client_id, data): the socket registered under the id, when
\* there is one and the write succeeds
SendToClient(tbl, sk, id) ==
    IF id \in TableIds(tbl) /\ SendOk(sk, tbl[TableIndex(tbl, id)].sock)
    THEN {tbl[TableIndex(tbl, id)].sock} ELSE {}

\* USBManager.send(data): serial_conn set and is_running
UsbSend(conn, run) == IF conn = "open" /\ run THEN {SerialLine} ELSE {}

(***************************************************************************)
(* BluetoothManager.broadcast.                                             *)
(***************************************************************************)

\* variant: the first failed write ends the iteration
BroadcastAttemptsAbort(tbl, sk) ==
    LET all  == [i \in 1..Len(tbl) |->
                    [id |-> tbl[i].id, sock |-> tbl[i].sock,
                     ok |-> SendOk(sk, tbl[i].sock)]]
        bad  == {i \in 1..Len(tbl) : ~all[i].ok}
        last == IF bad = {} THEN Len(tbl)
                ELSE CHOOSE i \in bad : \A j \in bad : i <= j
    IN  SubSeq(all, 1, last)

\* for client_id, client_info in self.clients.items(): try send / except:
\* one write per entry, in table order, a failure recorded and passed over
BroadcastAttempts(tbl, sk) ==
    [i \in 1..Len(tbl) |->
        [id |-> tbl[i].id, sock |-> tbl[i].sock, ok |-> SendOk(sk, tbl[i].sock)]]

\* disconnected_clients, and the sockets the purge closes
Disconnected(att) == {att[i].id : i \in {j \in DOMAIN att : ~att[j].ok}}
DisconnectedSocks(att) == {att[i].sock : i \in {j \in DOMAIN att : ~att[j].ok}}

\* close() on each of the handles: nothing passes through a closed handle
CloseSocks(sk, closed) ==
    [s \in DOMAIN sk |->
        IF s \in closed THEN [sk[s] EXCEPT !.state = "closed", !.peer = FALSE]
        ELSE sk[s]]

(***************************************************************************)
(* Actions of the link specification.                                      *)
(***************************************************************************)

\* main: app.start(), with bluetooth.start() and usb.start()
LinkAppStart(btOk, usbOk) ==
    /\ AppStart(btOk, usbOk)
    /\ accept_pc' = IF btOk THEN "running" ELSE accept_pc
    /\ usb_conn' = IF usbOk THEN "open" ELSE usb_conn
    /\ usb_reader' = IF usbOk THEN "running" ELSE usb_reader
    /\ op' = [OpNone EXCEPT !.name = "start"]
    /\ UNCHANGED <<clients, socks, next_sock, stop_threads, stop_pc>>

\* _connection_handler: accept, register under the id, start the reader
BtAccept(id) ==
    /\ bt_is_running
    /\ accept_pc = "running"
    /\ next_sock <= MaxConns
    /\ clients' = TablePut(clients, id, next_sock)
    /\ socks' = [socks EXCEPT ![next_sock] =
                    [state |-> "open", peer |-> TRUE, reader |-> "running",
                     id |-> id]]
    /\ next_sock' = next_sock + 1
    /\ op' = [OpNone EXCEPT !.name = "accept", !.sock = next_sock]
    /\ UNCHANGED <<accept_pc, usb_conn, usb_reader, stop_threads, stop_pc>>
    /\ UNCHANGED rangingVars

\* the peer of an open connection goes away
PeerDrop(s) ==
    /\ socks[s].state = "open"
    /\ socks[s].peer
    /\ socks' = [socks EXCEPT ![s].peer = FALSE]
    /\ op' = [OpNone EXCEPT !.name = "peer_drop", !.sock = s]
    /\ UNCHANGED <<clients, next_sock, accept_pc, usb_conn, usb_reader,
                   stop_threads, stop_pc>>
    /\ UNCHANGED rangingVars

\* _client_handler: recv returns a frame, _process_received_data
BtRecv(s, raw, det, btOk, usbOk) ==
    /\ bt_is_running
    /\ socks[s].reader = "running"
    /\ socks[s].state = "open"
    /\ socks[s].peer
    /\ LET out == FrameOutcome(raw, det, running, BtInvalidResponse)
       IN  /\ (out.handler = "stop_system" /\ running)
                  => stop_threads < MaxStopThreads
           /\ HandlerEffect(out.handler, btOk, usbOk)
           /\ op' = [OpNone EXCEPT
                        !.name = "frame", !.via = "bluetooth", !.sock = s,
                        !.raw = raw, !.handler = out.handler,
                        !.response = out.response,
                        !.written = IF out.response = None THEN {}
                                    ELSE SendToClient(clients, socks, socks[s].id),
                        !.callback = out.callback]
    /\ UNCHANGED <<clients, socks, next_sock>>

\* _client_handler: recv returns nothing, raises or times out; finally:
\* close the socket, delete the id from the table
BtReaderExit(s) ==
    /\ socks[s].reader = "running"
    /\ socks' = [CloseSocks(socks, {s}) EXCEPT ![s].reader = "exited"]
    /\ clients' = TableDel(clients, {socks[s].id})
    /\ op' = [OpNone EXCEPT !.name = "reader_exit", !.sock = s]
    /\ UNCHANGED <<next_sock, accept_pc, usb_conn, usb_reader, stop_threads,
                   stop_pc>>
    /\ UNCHANGED rangingVars

\* _read_loop: one complete non-blank line, _process_received_data
UsbRecvLine(raw, det, btOk, usbOk) ==
    /\ usb_is_running
    /\ usb_reader = "running"
    /\ usb_conn = "open"
    /\ LET out == FrameOutcome(raw, det, running, UsbInvalidResponse)
       IN  /\ (out.handler = "stop_system" /\ running)
                  => stop_threads < MaxStopThreads
           /\ HandlerEffect(out.handler, btOk, usbOk)
           /\ op' = [OpNone EXCEPT
                        !.name = "frame", !.via = "usb", !.raw = raw,
                        !.handler = out.handler, !.response = out.response,
                        !.written = IF out.response = None THEN {}
                                    ELSE UsbSend(usb_conn, usb_is_running),
                        !.callback = out.callback]
    /\ UNCHANGED <<clients, socks, next_sock>>

\* one loop iteration with a valid sample: _broadcast_distance hands the
\* payload to bluetooth.broadcast and usb.send
LinkObstacleSample(d, m) ==
    /\ ObstacleSample(d, m)
    /\ now < EpochStart + MaxLinkTime
    /\ LET due == BroadcastDue(now + m, last_broadcast_time)
           bt  == due /\ bt_is_running
           att == IF bt THEN BroadcastAttempts(clients, socks) ELSE <<>>
       IN  /\ clients' = TableDel(clients, Disconnected(att))
           /\ socks' = CloseSocks(socks, DisconnectedSocks(att))
           /\ op' = [OpNone EXCEPT
                        !.name = IF bt THEN "broadcast" ELSE "sample",
                        !.before = IF bt THEN clients ELSE <<>>,
                        !.up = IF bt THEN {s \in TableSocks(clients) :
                                              socks[s].state = "open" /\ socks[s].peer}
                               ELSE {},
                        !.attempted = att,
                        !.usb_written = (due /\ usb_is_running /\
                                         UsbSend(usb_conn, usb_is_running) # {})]
    /\ UNCHANGED <<next_sock, accept_pc, usb_conn, usb_reader, stop_threads,
                   stop_pc>>

\* the while condition is false: the loop ends
LinkObstacleExit ==
    /\ ObstacleExit
    /\ op' = [OpNone EXCEPT !.name = "loop_exit"]
    /\ UNCHANGED <<clients, socks, next_sock, accept_pc, usb_conn, usb_reader,
                   stop_threads, stop_pc>>

\* stop(), called from main or by a thread stop_system spawned: running is
\* cleared and the stop event set, then the thread joins
LinkStopSignal(spawned) ==
    /\ AppStopSignal
    /\ stop_pc = "idle"
    /\ spawned => stop_threads > 0
    /\ stop_threads' = IF spawned THEN stop_threads - 1 ELSE stop_threads
    /\ stop_pc' = "joining"
    /\ op' = [OpNone EXCEPT !.name = "stop_signal"]
    /\ UNCHANGED <<clients, socks, next_sock, accept_pc, usb_conn, usb_reader>>

\* stop() of a spawned thread when the system is not running: return
StopThreadReturn ==
    /\ stop_threads > 0
    /\ ~running
    /\ stop_threads' = stop_threads - 1
    /\ op' = [OpNone EXCEPT !.name = "stop_return"]
    /\ UNCHANGED <<clients, socks, next_sock, accept_pc, usb_conn, usb_reader,
                   stop_pc>>
    /\ UNCHANGED rangingVars

\* stop(), after the join (the obstacle thread ended, or the join timed out
\* on a thread that goes on): bluetooth.stop() closes the sockets of the
\* table, ends the accept loop and empties the table; usb.stop() closes the
\* serial line and ends the read loop
LinkStopTransports ==
    /\ stop_pc = "joining"
    /\ obs_pc = "exited" \/ LoopContinues(stop_event, running)
    /\ bt_is_running' = FALSE
    /\ usb_is_running' = FALSE
    /\ socks' = IF bt_is_running THEN CloseSocks(socks, TableSocks(clients))
                ELSE socks
    /\ clients' = IF bt_is_running THEN <<>> ELSE clients
    /\ accept_pc' = IF bt_is_running THEN "exited" ELSE accept_pc
    /\ usb_conn' = IF usb_is_running THEN "none" ELSE usb_conn
    /\ usb_reader' = IF usb_is_running THEN "exited" ELSE usb_reader
    /\ stop_pc' = "idle"
    /\ op' = [OpNone EXCEPT !.name = "stop_transports",
                             !.up = TransportsFor(bt_is_running, usb_is_running)]
    /\ UNCHANGED <<next_sock, stop_threads>>
    /\ UNCHANGED <<running, stop_event, obs_pc, now, last_distance,
                   last_alert_time, last_broadcast_time, it, hist>>

\* distances the loop reads in the link specification, and the ticks a
\* measurement takes
LinkDistances == {DangerDistance - 10}
LinkMeasureTicks == {1}

\* the inputs that matter to a frame: the detector to get_objects, the
\* outcome of starting a transport to start_system
DetectFor(raw) == IF raw = "get_objects" THEN DetectOutcomes ELSE {"empty"}
StartFor(raw) == IF raw = "start_system" THEN BOOLEAN ELSE {TRUE}

\* the peer that connects is one that connected before or the next new one
ConnectingIds(sk) ==
    LET known == {sk[s].id : s \in {r \in DOMAIN sk : sk[r].state # "unused"}}
        fresh == {i \in DOMAIN PeerSeq : PeerSeq[i] \notin known}
    IN  known \cup {PeerSeq[i] : i \in {j \in fresh : \A k \in fresh : j <= k}}

LinkInit ==
    /\ clients = <<>>
    /\ socks = [s \in Socks |-> SockNone]
    /\ next_sock = 1
    /\ accept_pc = "none"
    /\ usb_conn = "none"
    /\ usb_reader = "none"
    /\ stop_threads = 0
    /\ stop_pc = "idle"
    /\ op = OpNone


(***************************************************************************)
(* The reader threads, one step per statement: _client_handler             *)
(* (bluetooth.py) and _read_loop (usb.py), each reading requests from its  *)
(* peer and answering them.                                                *)
(***************************************************************************)

\* requests each peer sends
MaxRequests == 2

\* two Bluetooth connections and the serial line
BtConns == {"bt1", "bt2"}
Conns == BtConns \cup {"usb"}

\* frames the peers send: one that is answered and one that is not
ReaderFrames == {"get_status", "[]"}

VARIABLES
    rd_sent,    \* per connection: the frames the peer has sent, in order
    rd_inbox,   \* per connection: numbers of the requests not yet read
    rd_buf,     \* USB: complete lines read into the buffer, not yet processed
    rd_pending, \* per connection: requests read and not yet processed
    rd_taken,   \* per connection: requests read so far, in order
    rd_wire,    \* per connection: responses written, each with the number of
                \* the last request read when it was written
    rd_calls,   \* per connection: calls of the data callback, each with its
                \* request, how it ended and whether the response of the
                \* request was on the wire when it was called
    rd_open     \* per connection: the reader thread runs, the handle is open

readerVars == <<rd_sent, rd_inbox, rd_buf, rd_pending, rd_taken, rd_wire,
                rd_calls, rd_open>>

\* how a call of the data callback ends; the callbacks CanneApp registers
\* (_handle_bt_data, _handle_usb_data) log the message and return
CallbackOutcomes == {"return", "raise"}
RegisteredCallback == {"return"}

\* variant: the callback is called before the send and outside the try, so
\* that its exception suppresses the response and ends the reader thread
ProcessFrameCallbackFirst(out, cb) ==
    [written |-> IF out.callback /\ cb = "raise" THEN None ELSE out.response,
     called |-> out.callback,
     sent_first |-> FALSE,
     open |-> ~(out.callback /\ cb = "raise")]

\* _process_received_data from the response on: the response is handed to
\* the send, then the callback is called inside the same try, whose generic
\* except logs what the callback raises
ProcessFrame(out, cb) ==
    [written |-> out.response,
     called |-> out.callback,
     sent_first |-> out.response # None,
     open |-> TRUE]

\* variant: the thread reads on while a request is still being processed
ReaderFreeAlways(pending) == TRUE

\* one thread per connection, which calls _process_received_data and comes
\* back to the read only when it has returned
ReaderFree(pending) == pending = <<>>

\* the peer of connection c sends one more request
PeerSend(c, raw) ==
    /\ Len(rd_sent[c]) < MaxRequests
    /\ rd_sent' = [rd_sent EXCEPT ![c] = Append(@, raw)]
    /\ rd_inbox' = [rd_inbox EXCEPT ![c] = Append(@, Len(rd_sent[c]) + 1)]
    /\ rd_open[c]
    /\ UNCHANGED <<rd_buf, rd_pending, rd_taken, rd_wire, rd_calls, rd_open>>

\* data = client_sock.recv(1024): the next request of the connection
BtRead(c) ==
    /\ c \in BtConns
    /\ ReaderFree(rd_pending[c])
    /\ rd_inbox[c] # <<>>
    /\ rd_pending' = [rd_pending EXCEPT ![c] = Append(@, Head(rd_inbox[c]))]
    /\ rd_taken' = [rd_taken EXCEPT ![c] = Append(@, Head(rd_inbox[c]))]
    /\ rd_inbox' = [rd_inbox EXCEPT ![c] = Tail(@)]
    /\ rd_open[c]
    /\ UNCHANGED <<rd_sent, rd_buf, rd_wire, rd_calls, rd_open>>

\* serial_conn.read(in_waiting): the k complete lines waiting go to the buffer
UsbReadChunk(k) ==
    /\ ReaderFree(rd_pending["usb"])
    /\ rd_buf = <<>>
    /\ k \in 1..Len(rd_inbox["usb"])
    /\ rd_buf' = SubSeq(rd_inbox["usb"], 1, k)
    /\ rd_inbox' = [rd_inbox EXCEPT
                       !["usb"] = SubSeq(@, k + 1, Len(rd_inbox["usb"]))]
    /\ rd_open["usb"]
    /\ UNCHANGED <<rd_sent, rd_pending, rd_taken, rd_wire, rd_calls, rd_open>>

\* for line in lines[:-1]: the next line of the buffer is processed
UsbTakeLine ==
    /\ ReaderFree(rd_pending["usb"])
    /\ rd_buf # <<>>
    /\ rd_pending' = [rd_pending EXCEPT !["usb"] = Append(@, Head(rd_buf))]
    /\ rd_taken' = [rd_taken EXCEPT !["usb"] = Append(@, Head(rd_buf))]
    /\ rd_buf' = Tail(rd_buf)
    /\ rd_open["usb"]
    /\ UNCHANGED <<rd_sent, rd_inbox, rd_wire, rd_calls, rd_open>>

\* _process_received_data on the request taken: the response, when there is
\* one, is written to the peer and the data callback is called
ReaderReply(c, cb) ==
    /\ rd_pending[c] # <<>>
    /\ LET n   == Head(rd_pending[c])
           out == FrameOutcome(rd_sent[c][n], "empty", running,
                               IF c = "usb" THEN UsbInvalidResponse
                               ELSE BtInvalidResponse)
           res == ProcessFrame(out, cb)
       IN  /\ rd_wire' = [rd_wire EXCEPT ![c] =
                             IF res.written = None THEN @
                             ELSE Append(@, [n |-> n,
                                             last |-> rd_taken[c][Len(rd_taken[c])]])]
           /\ rd_calls' = [rd_calls EXCEPT ![c] =
                              IF res.called
                              THEN Append(@, [n |-> n, outcome |-> cb,
                                              sent_first |-> res.sent_first])
                              ELSE @]
           /\ rd_open' = [rd_open EXCEPT ![c] = res.open]
    /\ rd_pending' = [rd_pending EXCEPT ![c] = Tail(@)]
    /\ UNCHANGED <<rd_sent, rd_inbox, rd_buf, rd_taken>>

ReaderInit ==
    /\ rd_sent = [c \in Conns |-> <<>>]
    /\ rd_inbox = [c \in Conns |-> <<>>]
    /\ rd_buf = <<>>
    /\ rd_pending = [c \in Conns |-> <<>>]
    /\ rd_taken = [c \in Conns |-> <<>>]
    /\ rd_wire = [c \in Conns |-> <<>>]
    /\ rd_calls = [c \in Conns |-> <<>>]
    /\ rd_open = [c \in Conns |-> TRUE]

(***************************************************************************)
(* The life cycle of the two transport servers: BluetoothManager.start /   *)
(* stop and USBManager.start / stop, as CanneApp and the command handlers  *)
(* call them.                                                              *)
(***************************************************************************)

\* accept / read threads one transport may spawn over a run
MaxSpawned == 3

Transports == {"bluetooth", "usb"}

VARIABLES
    tp,      \* per transport: is_running, the listening handles bound (server
             \* socket or serial line), the live accept / read threads, the
             \* threads spawned so far and the ids of the client table
    tp_last  \* the last call: name, transport, state before, returned value

startVars == <<tp, tp_last>>

TpNone == [is_running |-> FALSE, handles |-> 0, threads |-> 0, spawned |-> 0,
           clients |-> {}]
TpLastNone == [name |-> "none", t |-> "none", before |-> TpNone, ret |-> None]

\* variant: start() without the is_running test binds and spawns again
StartOfAgain(st, ok) ==
    IF ok THEN [st EXCEPT !.is_running = TRUE, !.handles = @ + 1,
                          !.threads = @ + 1, !.spawned = @ + 1]
    ELSE st

\* start(): already running, nothing is done; else the handle is bound or
\* opened, is_running is set and the accept / read thread is started; a
\* failure leaves the transport stopped
StartOf(st, ok) ==
    IF st.is_running THEN st
    ELSE IF ok THEN [st EXCEPT !.is_running = TRUE, !.handles = @ + 1,
                               !.threads = @ + 1, !.spawned = @ + 1]
    ELSE st

\* the value start() returns
StartReturn(st, ok) == st.is_running \/ ok

\* stop(): nothing when not running; else the handle is closed, the accept /
\* read thread joined and the table emptied
StopOf(st) ==
    IF ~st.is_running THEN st
    ELSE [st EXCEPT !.is_running = FALSE, !.handles = 0, !.threads = 0,
                    !.clients = {}]

TpStart(t, ok) ==
    /\ tp[t].spawned < MaxSpawned
    /\ tp' = [tp EXCEPT ![t] = StartOf(tp[t], ok)]
    /\ tp_last' = [name |-> "start", t |-> t, before |-> tp[t],
                   ret |-> Some(StartReturn(tp[t], ok))]

TpStop(t) ==
    /\ tp' = [tp EXCEPT ![t] = StopOf(tp[t])]
    /\ tp_last' = [name |-> "stop", t |-> t, before |-> tp[t], ret |-> None]

\* the accept thread registers a client
TpAccept(id) ==
    /\ tp["bluetooth"].is_running
    /\ id \notin tp["bluetooth"].clients
    /\ tp' = [tp EXCEPT !["bluetooth"].clients = @ \cup {id}]
    /\ tp_last' = [name |-> "accept", t |-> "bluetooth",
                   before |-> tp["bluetooth"], ret |-> None]

StartInit ==
    /\ tp = [t \in Transports |-> TpNone]
    /\ tp_last = TpLastNone

(***************************************************************************)
(* object_detection_loop: one action per loop iteration, with the start    *)
(* and the stop of the application.  Time in tenths of a second.           *)
(***************************************************************************)

\* config.CAMERA_CONFIG["CAPTURE_INTERVAL"]: 5 s
CaptureInterval == 50

\* time.sleep(1) at the end of a cycle and after a missing frame
CycleSleep == 10

\* horizon of the detection clock, after its start
MaxDetectTime == 70

\* time.time() is far beyond the capture interval
DetectEpoch == CaptureInterval + 1

\* what detect_objects returns: a list of (class, confidence, box) tuples,
\* sorted by confidence, possibly empty
DetectResults ==
    { <<>>,
      << <<"person", 90, "box">> >>,
      << <<"person", 90, "box">>, <<"chair", 60, "box">> >> }

\* what get_frame returns
Frames == {"none", "image"}

VARIABLES
    det_pc,               \* "idle", "loop" or "exited"
    det_now,              \* the clock of the detection thread
    last_detection_time,
    det_obs               \* the last cycle that ran a detection: its result
                          \* and what the loop did with it

detectVars == <<det_pc, det_now, last_detection_time, det_obs>>

DetObsNone == [cycle |-> FALSE, detections |-> <<>>, spoke |-> FALSE,
               vibrated |-> FALSE, payload |-> None, sent |-> {},
               raised |-> FALSE]

\* for obj, _ in detections: each tuple is unpacked into two names, which
\* raises ValueError on a tuple of another length
Unpacks(detections) ==
    \A i \in 1..Len(detections) : Len(detections[i]) = 2

\* objects_data of _broadcast_objects, when the unpacking succeeds
ObjectsPayload(detections) ==
    [type |-> "objects_update",
     objects |-> [i \in 1..Len(detections) |-> detections[i][1]],
     confidence |-> [i \in 1..Len(detections) |-> detections[i][2]]]

\* current_time - last_detection_time < CAPTURE_INTERVAL does not hold
DetectionDue(t, ldt) == t - ldt >= CaptureInterval

\* start(): the detection thread is started with the obstacle thread
DetectAppStart(btOk, usbOk) ==
    /\ AppStart(btOk, usbOk)
    /\ det_pc' = "loop"
    /\ last_detection_time' = 0
    /\ det_obs' = DetObsNone
    /\ UNCHANGED det_now

DetectStopSignal ==
    /\ AppStopSignal
    /\ UNCHANGED detectVars

\* not yet time for a detection: time.sleep(0.1); continue
DetectWait ==
    /\ det_pc = "loop"
    /\ LoopContinues(stop_event, running)
    /\ ~DetectionDue(det_now, last_detection_time)
    /\ det_now < DetectEpoch + MaxDetectTime
    /\ det_now' = det_now + 1
    /\ UNCHANGED <<det_pc, last_detection_time, det_obs>>
    /\ UNCHANGED rangingVars

\* one cycle: the frame, the detection, the announcement and the broadcast
DetectCycle(frame, detections) ==
    /\ det_pc = "loop"
    /\ LoopContinues(stop_event, running)
    /\ DetectionDue(det_now, last_detection_time)
    /\ det_now < DetectEpoch + MaxDetectTime
    /\ IF frame = "none"
       THEN /\ det_now' = det_now + CycleSleep
            /\ UNCHANGED <<det_pc, last_detection_time, det_obs>>
       ELSE LET announced == detections # <<>>
                raised    == announced /\ ~Unpacks(detections)
            IN  /\ last_detection_time' = det_now
                /\ det_obs' =
                       [cycle |-> TRUE, detections |-> detections,
                        spoke |-> announced, vibrated |-> announced,
                        payload |-> IF announced /\ ~raised
                                    THEN Some(ObjectsPayload(detections))
                                    ELSE None,
                        sent |-> IF announced /\ ~raised
                                 THEN TransportsFor(bt_is_running,
                                                    usb_is_running)
                                 ELSE {},
                        raised |-> raised]
                /\ det_pc' = IF raised THEN "exited" ELSE "loop"
                /\ det_now' = IF raised THEN det_now ELSE det_now + CycleSleep
    /\ UNCHANGED rangingVars

\* the while condition fails: the thread ends
DetectExit ==
    /\ det_pc = "loop"
    /\ ~LoopContinues(stop_event, running)
    /\ det_pc' = "exited"
    /\ UNCHANGED <<det_now, last_detection_time, det_obs>>
    /\ UNCHANGED rangingVars

DetectInit ==
    /\ det_pc = "idle"
    /\ det_now = DetectEpoch
    /\ last_detection_time = 0
    /\ det_obs = DetObsNone

(***************************************************************************)
(* CanneApp.__init__ / init_modules: the construction of the modules.      *)
(***************************************************************************)

\* the modules in the order init_modules constructs them
InitOrder == <<"ultrasonic", "camera", "object_detector", "audio", "haptic",
               "bluetooth", "usb">>
Modules == {InitOrder[i] : i \in DOMAIN InitOrder}

\* BLUETOOTH_AVAILABLE, USB_AVAILABLE: the modules whose import is tested
\* before the constructor is called
Optional == {"bluetooth", "usb"}

VARIABLES
    init_status,  \* "new", "initialised" or "raised"
    init_in,      \* the modules whose constructor raises and the optional
                  \* libraries that were imported
    modules       \* per module: "unset", "ready" or "none"

initVars == <<init_status, init_in, modules>>

\* whether init_modules calls the constructor of module m
Constructs(m, libs) == m \notin Optional \/ m \in libs

\* the first constructor that raises, 0 when none does
FirstRaise(raises, libs) ==
    LET bad == {i \in DOMAIN InitOrder :
                   InitOrder[i] \in raises /\ Constructs(InitOrder[i], libs)}
    IN  IF bad = {} THEN 0 ELSE CHOOSE i \in bad : \A j \in bad : i <= j

\* init_modules: one try around all the constructors, whose except logs
\* and raises again; the attributes assigned before the failure stay, the
\* others are never assigned
InitModulesOf(raises, libs) ==
    LET k == FirstRaise(raises, libs)
    IN  [status |-> IF k = 0 THEN "initialised" ELSE "raised",
         mods |-> [m \in Modules |->
                      LET i == CHOOSE j \in DOMAIN InitOrder : InitOrder[j] = m
                      IN  IF k # 0 /\ i >= k THEN "unset"
                          ELSE IF Constructs(m, libs) THEN "ready"
                          ELSE "none"]]

\* CanneApp(): running, stop_event, then init_modules
InitModules(raises, libs) ==
    /\ init_status = "new"
    /\ init_in' = [raises |-> raises, libs |-> libs]
    /\ init_status' = InitModulesOf(raises, libs).status
    /\ modules' = InitModulesOf(raises, libs).mods

AppInit ==
    /\ init_status = "new"
    /\ init_in = [raises |-> {}, libs |-> {}]
    /\ modules = [m \in Modules |-> "unset"]

(***************************************************************************)
(* USBManager._read_loop: the framing of the serial byte stream.           *)
(***************************************************************************)

\* bytes the peer writes on the serial line
MaxStreamLen == 4

\* a byte of a message, a blank and the terminator
NL == "\n"
Bytes == {"a", " ", NL}

VARIABLES
    fr_wire,    \* bytes written by the peer and not yet read (in_waiting)
    fr_read,    \* every byte read so far, in order
    fr_buffer,  \* buffer of _read_loop
    fr_frames   \* the lines passed to _process_received_data, in order

framingVars == <<fr_wire, fr_read, fr_buffer, fr_frames>>

\* bytes.split(b"\n"): the segments between the terminators, one more than
\* there are terminators
RECURSIVE SplitLines(_)
SplitLines(bytes) ==
    IF \A i \in DOMAIN bytes : bytes[i] # NL THEN <<bytes>>
    ELSE LET k == CHOOSE i \in DOMAIN bytes :
                      bytes[i] = NL /\ \A j \in 1..(i - 1) : bytes[j] # NL
         IN  <<SubSeq(bytes, 1, k - 1)>>
                 \o SplitLines(SubSeq(bytes, k + 1, Len(bytes)))

\* line.strip() is empty
Blank(line) == \A i \in DOMAIN line : line[i] = " "

NonBlank(lines) == SelectSeq(lines, LAMBDA l : ~Blank(l))

\* lines[:-1]
Complete(lines) == SubSeq(lines, 1, Len(lines) - 1)

\* variant: the incomplete last line is dropped with the lines processed
KeptBufferNone(lines) == <<>>

\* buffer = lines[-1]
KeptBuffer(lines) == lines[Len(lines)]

\* the peer writes one byte
UsbPeerWrite(b) ==
    /\ Len(fr_read) + Len(fr_wire) < MaxStreamLen
    /\ fr_wire' = Append(fr_wire, b)
    /\ UNCHANGED <<fr_read, fr_buffer, fr_frames>>

\* one iteration of the loop with in_waiting > 0: read, append to the
\* buffer, and when a terminator is there process the complete lines
UsbReadBytes ==
    /\ fr_wire # <<>>
    /\ LET buf   == fr_buffer \o fr_wire
           lines == SplitLines(buf)
       IN  IF \E i \in DOMAIN buf : buf[i] = NL
           THEN /\ fr_buffer' = KeptBuffer(lines)
                /\ fr_frames' = fr_frames \o NonBlank(Complete(lines))
           ELSE /\ fr_buffer' = buf
                /\ UNCHANGED fr_frames
    /\ fr_read' = fr_read \o fr_wire
    /\ fr_wire' = <<>>

FramingInit ==
    /\ fr_wire = <<>>
    /\ fr_read = <<>>
    /\ fr_buffer = <<>>
    /\ fr_frames = <<>>

(***************************************************************************)
(* ObjectDetector.detect_objects: the selection of the detections.         *)
(* Confidences in hundredths.                                              *)
(***************************************************************************)

\* config.DETECTION_CONFIG: CONFIDENCE_THRESHOLD 0.5, MAX_DETECTIONS 5
ConfidenceThreshold == 50
MaxDetections == 5

\* rows the network returns for one frame
MaxRows == 6

\* confidences of a row: at the threshold and above it
Confidences == {ConfidenceThreshold, 60, 90}

RawOutputs == UNION {[1..n -> Confidences] : n \in 0..MaxRows}

VARIABLES
    od_frame,   \* the frame given: "none", "image" or "new" before a call
    od_rows,    \* the confidences of the rows of the network, in order
    od_result   \* the list returned: (class, confidence, box) tuples, the
                \* class and the box standing for the row they come from

detectorVars == <<od_frame, od_rows, od_result>>

\* variant: a row at the threshold is kept
KeepsInclusive(conf) == conf >= ConfidenceThreshold

\* if confidence > self.confidence_threshold
Keeps(conf) == conf > ConfidenceThreshold

\* the loop over the rows: the rows kept, in the order of the network
RECURSIVE Kept(_, _)
Kept(rows, i) ==
    IF i > Len(rows) THEN <<>>
    ELSE (IF Keeps(rows[i]) THEN << <<i, rows[i], i>> >> ELSE <<>>)
             \o Kept(rows, i + 1)

\* results.sort(key=lambda x: x[1], reverse=True): a stable sort, equal
\* confidences keep their order
RECURSIVE SortByConfidence(_)
SortByConfidence(res) ==
    IF res = <<>> THEN <<>>
    ELSE LET k == CHOOSE i \in DOMAIN res :
                      /\ \A j \in DOMAIN res : res[j][2] <= res[i][2]
                      /\ \A j \in 1..(i - 1) : res[j][2] < res[i][2]
         IN  <<res[k]>> \o SortByConfidence(
                 SubSeq(res, 1, k - 1) \o SubSeq(res, k + 1, Len(res)))

\* results[:self.max_detections]
Truncate(res) ==
    IF Len(res) > MaxDetections THEN SubSeq(res, 1, MaxDetections) ELSE res

\* detect_objects(frame)
DetectObjectsOf(frame, rows) ==
    IF frame = "none" THEN <<>>
    ELSE Truncate(SortByConfidence(Kept(rows, 1)))

DetectObjects(frame, rows) ==
    /\ od_frame = "new"
    /\ od_frame' = frame
    /\ od_rows' = rows
    /\ od_result' = DetectObjectsOf(frame, rows)

DetectorInit ==
    /\ od_frame = "new"
    /\ od_rows = <<>>
    /\ od_result = <<>>

(***************************************************************************)
(* AudioFeedback: the speech queue and its worker thread.                  *)
(***************************************************************************)

\* messages given to speak over a run
MaxMessages == 3

VARIABLES
    speech_queue, \* the texts waiting, each with the priority it came with
    speaking,     \* a worker thread is alive
    au_playing,   \* the text the worker is playing, or None
    au_spoken,    \* the texts played, in order
    au_count,     \* texts given so far; the n-th non-empty text is n
    au_pending,   \* per text: its priority and the texts that waited when
                  \* it was enqueued
    au_last,      \* the last call of speak: text, priority, queue and
                  \* worker state before it; the last step of the worker
                  \* and whether the synthesis it ended had failed
    au_workers    \* threads alive in _speak_worker

audioVars == <<speech_queue, speaking, au_playing, au_spoken, au_count,
               au_pending, au_last, au_workers>>

AuLastNone == [name |-> "none", text |-> 0, priority |-> FALSE,
               queue |-> <<>>, speaking |-> FALSE, failed |-> FALSE]

\* variant: speak starts a worker thread at every call
StartsWorkerAlways(flag) == TRUE

\* if not self.speaking: a worker thread is created and started
StartsWorker(flag) == ~flag

\* variant: every message is appended
EnqueueTail(queue, msg, priority) == Append(queue, msg)

\* if priority: speech_queue.insert(0, text) else: speech_queue.append(text)
Enqueue(queue, msg, priority) ==
    IF priority THEN <<msg>> \o queue ELSE Append(queue, msg)

\* speak(text, priority); text 0 stands for the empty text
Speak(empty, priority) ==
    /\ au_count < MaxMessages
    /\ LET n   == au_count + 1
           msg == [text |-> n, priority |-> priority]
       IN  IF empty
           THEN /\ au_last' = [name |-> "speak", text |-> 0,
                               priority |-> priority, queue |-> speech_queue,
                               speaking |-> speaking]
                /\ au_count' = n
                /\ UNCHANGED <<speech_queue, speaking, au_pending,
                               au_workers>>
           ELSE /\ speech_queue' = Enqueue(speech_queue, msg, priority)
                /\ speaking' = TRUE
                /\ au_workers' = IF StartsWorker(speaking)
                                 THEN au_workers + 1 ELSE au_workers
                /\ au_count' = n
                /\ au_pending' = [au_pending EXCEPT
                                   ![n] = [priority |-> priority,
                                           waiting |-> speech_queue]]
                /\ au_last' = [name |-> "speak", text |-> n,
                               priority |-> priority, queue |-> speech_queue,
                               speaking |-> speaking]
    /\ UNCHANGED <<au_playing, au_spoken>>

\* _speak_worker, under the lock: text = self.speech_queue.pop(0)
WorkerPop ==
    /\ au_workers > 0
    /\ au_playing = None
    /\ speech_queue # <<>>
    /\ au_playing' = Some(Head(speech_queue).text)
    /\ speech_queue' = Tail(speech_queue)
    /\ au_last' = [AuLastNone EXCEPT !.name = "pop"]
    /\ UNCHANGED <<speaking, au_spoken, au_count, au_pending, au_workers>>

\* _generate_and_play_speech returns: the text was played, or the synthesis
\* or the playback raised and the exception was logged
WorkerPlayed(failed) ==
    /\ au_playing # None
    /\ au_spoken' = Append(au_spoken, Val(au_playing))
    /\ au_playing' = None
    /\ au_last' = [AuLastNone EXCEPT !.name = "played", !.failed = failed]
    /\ UNCHANGED <<speech_queue, speaking, au_count, au_pending, au_workers>>

\* _speak_worker, under the lock: the queue is empty, speaking = False, and
\* the thread ends
WorkerExit ==
    /\ au_workers > 0
    /\ au_playing = None
    /\ speech_queue = <<>>
    /\ speaking' = FALSE
    /\ au_workers' = au_workers - 1
    /\ au_last' = [AuLastNone EXCEPT !.name = "exit"]
    /\ UNCHANGED <<speech_queue, au_playing, au_spoken, au_count, au_pending>>

\* stop_all, under the lock: self.speech_queue = []
StopAll ==
    /\ speech_queue' = <<>>
    /\ au_last' = [AuLastNone EXCEPT !.name = "stop_all",
                                     !.queue = speech_queue]
    /\ UNCHANGED <<speaking, au_playing, au_spoken, au_count, au_pending,
                   au_workers>>

AudioInit ==
    /\ speech_queue = <<>>
    /\ speaking = FALSE
    /\ au_playing = None
    /\ au_spoken = <<>>
    /\ au_count = 0
    /\ au_pending = [n \in 1..(MaxMessages + 1) |->
                         [priority |-> FALSE, waiting |-> <<>>]]
    /\ au_last = AuLastNone
    /\ au_workers = 0

(***************************************************************************)
(* BluetoothManager, statement by statement: the accept thread, the reader *)
(* threads, a thread in stop() and a thread in broadcast() share the       *)
(* client table, with no lock.                                             *)
(***************************************************************************)

\* connections accepted over a run
MaxAccepted == 1
\* accept errors while the listening socket is open
MaxAcceptErrors == 1

\* client_id = "address:channel" of the peer
ClientIds == {"a", "b"}
Accepted == 1..MaxAccepted

VARIABLES
    sv_running,  \* is_running
    sv_listen,   \* the server socket: "open" or "closed"
    sv_clients,  \* self.clients: per client id, the connection or None
    sv_sock,     \* per connection: "none" (not accepted), "open", "closed"
    sv_id,       \* per connection: its client id
    sv_accept,   \* the accept thread: pc and the connection it holds
    sv_reader,   \* per connection, its reader thread: pc and its socket
    sv_stop,     \* the thread in stop(): pc
    sv_bc,       \* the thread in broadcast(): pc, the size of the table
                 \* when the iteration began, the ids visited, the ids
                 \* whose send failed, the table iterated when self.clients
                 \* was rebound meanwhile
    sv_count,    \* connections accepted so far
    sv_errs,     \* accept errors so far, and the number of connections
                 \* accepted before the first one
    sv_last      \* the last table access: its kind, and whether a
                 \* broadcast was iterating over the table it changed

serverVars == <<sv_running, sv_listen, sv_clients, sv_sock, sv_id, sv_accept,
                sv_reader, sv_stop, sv_bc, sv_count, sv_errs, sv_last>>

SvNoAccess == [op |-> "none", iterating |-> FALSE]
BcIdle == [pc |-> "idle", size |-> 0, done |-> {}, failed |-> {},
           old |-> None]

\* the ids in a table
Keys(table) == {id \in ClientIds : table[id] # None}

\* a broadcast is iterating over self.clients itself
Iterating == sv_bc.pc = "iter" /\ sv_bc.old = None

Access(kind) == [op |-> kind, iterating |-> Iterating]

\* while self.is_running:
AcceptTest ==
    /\ sv_accept.pc = "test"
    /\ sv_accept' = [sv_accept EXCEPT
                        !.pc = IF sv_running THEN "accept" ELSE "done"]
    /\ sv_last' = SvNoAccess
    /\ UNCHANGED <<sv_running, sv_listen, sv_clients, sv_sock, sv_id,
                   sv_reader, sv_stop, sv_bc, sv_count, sv_errs>>

\* client_sock, client_info = self.server_socket.accept() returns
AcceptReturn(id) ==
    /\ sv_accept.pc = "accept"
    /\ sv_listen = "open"
    /\ sv_count < MaxAccepted
    /\ LET c == sv_count + 1
       IN  /\ sv_count' = c
           /\ sv_sock' = [sv_sock EXCEPT ![c] = "open"]
           /\ sv_id' = [sv_id EXCEPT ![c] = id]
           /\ sv_accept' = [pc |-> "insert", conn |-> c]
    /\ sv_last' = SvNoAccess
    /\ UNCHANGED <<sv_running, sv_listen, sv_clients, sv_reader, sv_stop,
                   sv_bc, sv_errs>>

\* variant: an accept error ends the loop
AfterErrorBreak == "done"

\* except Exception: ... time.sleep(1), and the loop goes on
AfterError == "sleep"

\* accept() raises: the listening socket was closed, or an error of the
\* transport while it is open
AcceptError ==
    /\ sv_accept.pc = "accept"
    /\ sv_listen = "open" => sv_errs.n < MaxAcceptErrors
    /\ sv_accept' = [sv_accept EXCEPT !.pc = AfterError]
    /\ sv_errs' = IF sv_listen = "open"
                  THEN [n |-> sv_errs.n + 1,
                        at |-> IF sv_errs.n = 0 THEN Some(sv_count)
                               ELSE sv_errs.at]
                  ELSE sv_errs
    /\ sv_last' = SvNoAccess
    /\ UNCHANGED <<sv_running, sv_listen, sv_clients, sv_sock, sv_id,
                   sv_reader, sv_stop, sv_bc, sv_count>>

\* time.sleep(1) of the except branch is over
AcceptSleep ==
    /\ sv_accept.pc = "sleep"
    /\ sv_accept' = [sv_accept EXCEPT !.pc = "test"]
    /\ sv_last' = SvNoAccess
    /\ UNCHANGED <<sv_running, sv_listen, sv_clients, sv_sock, sv_id,
                   sv_reader, sv_stop, sv_bc, sv_count, sv_errs>>

\* self.clients[client_id] = {"socket": client_sock, ...}
AcceptInsert ==
    /\ sv_accept.pc = "insert"
    /\ sv_clients' = [sv_clients EXCEPT
                         ![sv_id[sv_accept.conn]] = Some(sv_accept.conn)]
    /\ sv_accept' = [sv_accept EXCEPT !.pc = "spawn"]
    /\ sv_last' = Access("insert")
    /\ UNCHANGED <<sv_running, sv_listen, sv_sock, sv_id, sv_reader,
                   sv_stop, sv_bc, sv_count, sv_errs>>

\* client_thread.start()
AcceptSpawn ==
    /\ sv_accept.pc = "spawn"
    /\ sv_reader' = [sv_reader EXCEPT ![sv_accept.conn].pc = "lookup"]
    /\ sv_accept' = [sv_accept EXCEPT !.pc = "store"]
    /\ sv_last' = SvNoAccess
    /\ UNCHANGED <<sv_running, sv_listen, sv_clients, sv_sock, sv_id,
                   sv_stop, sv_bc, sv_count, sv_errs>>

\* self.clients[client_id]["thread"] = client_thread: a KeyError when the
\* entry is gone, caught by the except branch of the loop
AcceptStore ==
    /\ sv_accept.pc = "store"
    /\ sv_accept' = [sv_accept EXCEPT
                        !.pc = IF sv_clients[sv_id[sv_accept.conn]] # None
                               THEN "test" ELSE AfterError]
    /\ sv_last' = SvNoAccess
    /\ UNCHANGED <<sv_running, sv_listen, sv_clients, sv_sock, sv_id,
                   sv_reader, sv_stop, sv_bc, sv_count, sv_errs>>

\* client_sock = self.clients[client_id]["socket"], outside the try: a
\* KeyError ends the thread
ReaderLookup(c) ==
    /\ sv_reader[c].pc = "lookup"
    /\ sv_reader' = [sv_reader EXCEPT ![c] =
                        IF sv_clients[sv_id[c]] # None
                        THEN [pc |-> "test", sock |-> sv_clients[sv_id[c]]]
                        ELSE [pc |-> "dead", sock |-> None]]
    /\ sv_last' = SvNoAccess
    /\ UNCHANGED <<sv_running, sv_listen, sv_clients, sv_sock, sv_id,
                   sv_accept, sv_stop, sv_bc, sv_count, sv_errs>>

\* while self.is_running:
ReaderTest(c) ==
    /\ sv_reader[c].pc = "test"
    /\ sv_reader' = [sv_reader EXCEPT
                        ![c].pc = IF sv_running THEN "recv" ELSE "close"]
    /\ sv_last' = SvNoAccess
    /\ UNCHANGED <<sv_running, sv_listen, sv_clients, sv_sock, sv_id,
                   sv_accept, sv_stop, sv_bc, sv_count, sv_errs>>

\* data = client_sock.recv(1024): data, the end of the stream, or an error
\* (the time-out of 60 s, a closed socket)
ReaderRecv(c, outcome) ==
    /\ sv_reader[c].pc = "recv"
    /\ sv_sock[Val(sv_reader[c].sock)] = "closed" => outcome = "error"
    /\ sv_reader' = [sv_reader EXCEPT
                        ![c].pc = IF outcome = "data" THEN "test"
                                  ELSE "close"]
    /\ sv_last' = SvNoAccess
    /\ UNCHANGED <<sv_running, sv_listen, sv_clients, sv_sock, sv_id,
                   sv_accept, sv_stop, sv_bc, sv_count, sv_errs>>

\* finally: client_sock.close()
ReaderClose(c) ==
    /\ sv_reader[c].pc = "close"
    /\ sv_sock' = [sv_sock EXCEPT ![Val(sv_reader[c].sock)] = "closed"]
    /\ sv_reader' = [sv_reader EXCEPT ![c].pc = "del"]
    /\ sv_last' = SvNoAccess
    /\ UNCHANGED <<sv_running, sv_listen, sv_clients, sv_id, sv_accept,
                   sv_stop, sv_bc, sv_count, sv_errs>>

\* if client_id in self.clients: del self.clients[client_id]
ReaderDel(c) ==
    /\ sv_reader[c].pc = "del"
    /\ sv_clients' = [sv_clients EXCEPT ![sv_id[c]] = None]
    /\ sv_reader' = [sv_reader EXCEPT ![c].pc = "done"]
    /\ sv_last' = IF sv_clients[sv_id[c]] # None THEN Access("remove")
                  ELSE SvNoAccess
    /\ UNCHANGED <<sv_running, sv_listen, sv_sock, sv_id, sv_accept,
                   sv_stop, sv_bc, sv_count, sv_errs>>

\* stop(): self.is_running = False
StopFlag ==
    /\ sv_stop = "idle"
    /\ sv_running
    /\ sv_running' = FALSE
    /\ sv_stop' = "clients"
    /\ sv_last' = SvNoAccess
    /\ UNCHANGED <<sv_listen, sv_clients, sv_sock, sv_id, sv_accept,
                   sv_reader, sv_bc, sv_count, sv_errs>>

\* for ... in list(self.clients.items()): client_info["socket"].close()
StopCloseClients ==
    /\ sv_stop = "clients"
    /\ sv_sock' = [c \in Accepted |->
                      IF \E id \in ClientIds : sv_clients[id] = Some(c)
                      THEN "closed" ELSE sv_sock[c]]
    /\ sv_stop' = "server"
    /\ sv_last' = SvNoAccess
    /\ UNCHANGED <<sv_running, sv_listen, sv_clients, sv_id, sv_accept,
                   sv_reader, sv_bc, sv_count, sv_errs>>

\* self.server_socket.close()
StopCloseServer ==
    /\ sv_stop = "server"
    /\ sv_listen' = "closed"
    /\ sv_stop' = "join"
    /\ sv_last' = SvNoAccess
    /\ UNCHANGED <<sv_running, sv_clients, sv_sock, sv_id, sv_accept,
                   sv_reader, sv_bc, sv_count, sv_errs>>

\* self.server_thread.join(timeout=5.0): the thread has ended, or it is
\* still in accept() after 5 s; then self.clients = {}
StopJoinClear ==
    /\ sv_stop = "join"
    /\ sv_accept.pc \in {"done", "accept"}
    /\ sv_clients' = [id \in ClientIds |-> None]
    /\ sv_bc' = IF Iterating THEN [sv_bc EXCEPT !.old = Some(sv_clients)]
                ELSE sv_bc
    /\ sv_stop' = "returned"
    /\ sv_last' = [op |-> "clear", iterating |-> FALSE]
    /\ UNCHANGED <<sv_running, sv_listen, sv_sock, sv_id, sv_accept,
                   sv_reader, sv_count, sv_errs>>

\* broadcast(data), called while is_running: if not self.clients: return;
\* then the iteration over self.clients.items() begins
BroadcastBegin ==
    /\ sv_bc.pc = "idle"
    /\ sv_running
    /\ Keys(sv_clients) # {}
    /\ sv_bc' = [BcIdle EXCEPT !.pc = "iter",
                               !.size = Cardinality(Keys(sv_clients))]
    /\ sv_last' = SvNoAccess
    /\ UNCHANGED <<sv_running, sv_listen, sv_clients, sv_sock, sv_id,
                   sv_accept, sv_reader, sv_stop, sv_count, sv_errs>>

\* the table the iteration runs over
Iterated == IF sv_bc.old = None THEN sv_clients ELSE Val(sv_bc.old)

\* the next item of the iteration: RuntimeError when the size of the
\* dictionary changed, else client_info["socket"].send(encoded_data) for an
\* entry not visited yet; an id whose send fails is kept for the purge
BroadcastNext(sent) ==
    /\ sv_bc.pc = "iter"
    /\ IF Cardinality(Keys(Iterated)) # sv_bc.size
       THEN /\ sent
            /\ sv_bc' = [BcIdle EXCEPT !.pc = "raised"]
       ELSE IF Keys(Iterated) \ sv_bc.done = {}
       THEN /\ sent
            /\ sv_bc' = [sv_bc EXCEPT !.pc = "purge", !.old = None]
       ELSE \E id \in Keys(Iterated) \ sv_bc.done :
               /\ sent => sv_sock[Val(Iterated[id])] = "open"
               /\ sv_bc' = [sv_bc EXCEPT
                               !.done = @ \cup {id},
                               !.failed = IF sent THEN @ ELSE @ \cup {id}]
    /\ sv_last' = SvNoAccess
    /\ UNCHANGED <<sv_running, sv_listen, sv_clients, sv_sock, sv_id,
                   sv_accept, sv_reader, sv_stop, sv_count, sv_errs>>

\* for client_id in disconnected_clients: if client_id in self.clients:
\* close its socket and del self.clients[client_id]
BroadcastPurge ==
    /\ sv_bc.pc = "purge"
    /\ LET gone == sv_bc.failed \cap Keys(sv_clients)
       IN  /\ sv_sock' = [c \in Accepted |->
                             IF \E id \in gone : sv_clients[id] = Some(c)
                             THEN "closed" ELSE sv_sock[c]]
           /\ sv_clients' = [id \in ClientIds |->
                                IF id \in gone THEN None ELSE sv_clients[id]]
           /\ sv_last' = IF gone # {} THEN [op |-> "purge",
                                            iterating |-> FALSE]
                         ELSE SvNoAccess
    /\ sv_bc' = BcIdle
    /\ UNCHANGED <<sv_running, sv_listen, sv_id, sv_accept, sv_reader,
                   sv_stop, sv_count, sv_errs>>

\* the RuntimeError leaves broadcast()
BroadcastRaised ==
    /\ sv_bc.pc = "raised"
    /\ sv_bc' = BcIdle
    /\ sv_last' = SvNoAccess
    /\ UNCHANGED <<sv_running, sv_listen, sv_clients, sv_sock, sv_id,
                   sv_accept, sv_reader, sv_stop, sv_count, sv_errs>>

\* start() has returned True: the socket listens, the accept thread runs
ServerInit ==
    /\ sv_running = TRUE
    /\ sv_listen = "open"
    /\ sv_clients = [id \in ClientIds |-> None]
    /\ sv_sock = [c \in Accepted |-> "none"]
    /\ sv_id = [c \in Accepted |-> "a"]
    /\ sv_accept = [pc |-> "test", conn |-> 1]
    /\ sv_reader = [c \in Accepted |-> [pc |-> "none", sock |-> None]]
    /\ sv_stop = "idle"
    /\ sv_bc = BcIdle
    /\ sv_count = 0
    /\ sv_errs = [n |-> 0, at |-> None]
    /\ sv_last = SvNoAccess

(***************************************************************************)
(* The callers of UltrasonicSensor.measure_distance: the ranging loop and  *)
(* the transport threads that handle commands.                             *)
(***************************************************************************)

\* the reader thread of a Bluetooth client and the read thread of USB
TransportThreads == {"bluetooth", "usb"}
Callers == {"loop"} \cup TransportThreads
QueryCommands == {"get_status", "get_distance", "get_objects"}

VARIABLES
    mc_call,   \* per caller: where it is in measure_distance, "out" when it
               \* is not in a call
    mc_cmd,    \* per transport thread: the command it is handling, or None
    mc_trig    \* the level of the trigger output, shared by the callers

callerVars == <<mc_call, mc_cmd, mc_trig>>

\* the callers inside measure_distance
InCall == {k \in Callers : mc_call[k] # "out"}

\* measure_distance begins: GPIO.output(trig, False); time.sleep(0.01)
MeasureBegin(k) ==
    /\ mc_call' = [mc_call EXCEPT ![k] = "low"]
    /\ mc_trig' = 0

\* the statements of measure_distance after the first: the pulse on the
\* trigger output, the wait for the rise of the echo, the wait for its
\* fall; each wait ends at the level awaited or at its time-out
MeasureStep(k, timeout) ==
    /\ mc_call[k] \in {"low", "high", "rise", "fall"}
    /\ timeout => mc_call[k] \in {"rise", "fall"}
    /\ mc_call' = [mc_call EXCEPT ![k] =
                      IF timeout THEN "return"
                      ELSE CASE @ = "low" -> "high"
                             [] @ = "high" -> "rise"
                             [] @ = "rise" -> "fall"
                             [] @ = "fall" -> "return"]
    /\ mc_trig' = CASE mc_call[k] = "low" -> 1
                    [] mc_call[k] = "high" -> 0
                    [] OTHER -> mc_trig
    /\ UNCHANGED mc_cmd

\* obstacle_detection_loop: distance = self.ultrasonic.measure_distance()
LoopMeasure ==
    /\ mc_call["loop"] = "out"
    /\ MeasureBegin("loop")
    /\ UNCHANGED mc_cmd

\* the call of the loop returns; the loop sleeps until the next sample
LoopMeasured ==
    /\ mc_call["loop"] = "return"
    /\ mc_call' = [mc_call EXCEPT !["loop"] = "out"]
    /\ UNCHANGED <<mc_cmd, mc_trig>>

\* _process_received_data calls the handler of a command: get_distance
\* calls measure_distance, get_status and get_objects do not
TransportCommand(t, command) ==
    /\ mc_cmd[t] = None
    /\ mc_cmd' = [mc_cmd EXCEPT ![t] = Some(command)]
    /\ IF command = "get_distance"
       THEN MeasureBegin(t)
       ELSE UNCHANGED <<mc_call, mc_trig>>

\* the handler returns its response, which is sent
TransportRespond(t) ==
    /\ mc_cmd[t] # None
    /\ mc_call[t] \in {"out", "return"}
    /\ mc_cmd' = [mc_cmd EXCEPT ![t] = None]
    /\ mc_call' = [mc_call EXCEPT ![t] = "out"]
    /\ UNCHANGED mc_trig

\* the application is started and the sensor is set up
CallerInit ==
    /\ mc_call = [k \in Callers |-> "out"]
    /\ mc_cmd = [t \in TransportThreads |-> None]
    /\ mc_trig = 0

(***************************************************************************)
(* CanneApp.start and CanneApp.stop, statement by statement, with the      *)
(* threads that call them and the two loop threads.                        *)
(***************************************************************************)

\* calls of stop() over a run
MaxStops == 2
\* calls of start() after the one of main
MaxStarts == 1

\* the threads that call stop(): main (the end of main, or the signal
\* handler) and the threads spawned by stop_system
Stoppers == 1..MaxStops

\* variant: the hardware is released before the transports are stopped
StopStepsCleanupFirst ==
    <<"clear_running", "set_event", "join_obstacle", "join_object",
      "gpio_cleanup", "bluetooth_stop", "usb_stop", "speak",
      "camera_cleanup", "audio_cleanup", "haptic_cleanup">>

\* the statements of stop() after "if not self.running: return", cleanup()
\* included
StopSteps ==
    <<"clear_running", "set_event", "join_obstacle", "join_object",
      "bluetooth_stop", "usb_stop", "speak", "camera_cleanup",
      "audio_cleanup", "haptic_cleanup", "gpio_cleanup">>

\* the statements of start() after "if self.running: return"
StartSteps ==
    <<"set_running", "clear_event", "bluetooth_start", "usb_start",
      "spawn_obstacle", "spawn_object">>

VARIABLES
    lf_running,   \* self.running
    lf_event,     \* self.stop_event is set
    lf_bt,        \* bluetooth.is_running
    lf_usb,       \* usb.is_running
    lf_obstacle,  \* the threads alive in obstacle_detection_loop
    lf_object,    \* the same for object_detection_loop
    lf_stop,      \* per thread in stop(): whether it is in the body and the
                  \* statements of the body it has executed
    lf_start,     \* the thread in start(): the same
    lf_calls,     \* calls of stop() and of start() so far
    lf_bodies     \* bodies of stop() entered since the last start

lifeVars == <<lf_running, lf_event, lf_bt, lf_usb, lf_obstacle, lf_object,
              lf_stop, lf_start, lf_calls, lf_bodies>>

Out == [in |-> FALSE, done |-> <<>>]

\* while not self.stop_event.is_set() and self.running
LoopGoesOn == ~lf_event /\ lf_running

\* a thread at the loop test: it runs the body, which ends in a sleep on
\* every path, and is back at the test, or it leaves the loop and ends
LoopIteration(threads) == IF LoopGoesOn THEN threads ELSE threads - 1

\* obstacle_detection_loop, one iteration: measure_distance returns None
\* (sleep 0.1, continue) or a distance (alerts, broadcast, sleep
\* MEASURE_INTERVAL)
ObstacleIteration(timeout) ==
    /\ lf_obstacle > 0
    /\ lf_obstacle' = LoopIteration(lf_obstacle)
    /\ UNCHANGED <<lf_running, lf_event, lf_bt, lf_usb, lf_object, lf_stop,
                   lf_start, lf_calls, lf_bodies>>

\* object_detection_loop, one iteration: not due yet (sleep 0.1,
\* continue), no frame (sleep 1, continue) or a detection cycle (sleep 1)
ObjectIteration(path) ==
    /\ lf_object > 0
    /\ lf_object' = LoopIteration(lf_object)
    /\ UNCHANGED <<lf_running, lf_event, lf_bt, lf_usb, lf_obstacle, lf_stop,
                   lf_start, lf_calls, lf_bodies>>

\* stop() is called, the k-th call by thread k: if not self.running: return
StopCall(k) ==
    /\ k = lf_calls.stop + 1
    /\ lf_calls' = [lf_calls EXCEPT !.stop = @ + 1]
    /\ lf_stop' = [lf_stop EXCEPT ![k] = [in |-> lf_running, done |-> <<>>]]
    /\ lf_bodies' = IF lf_running THEN lf_bodies + 1 ELSE lf_bodies
    /\ UNCHANGED <<lf_running, lf_event, lf_bt, lf_usb, lf_obstacle,
                   lf_object, lf_start>>

\* the flags and transports after a statement of stop() or start(); a join
\* returns when its thread has ended or after its 2 s, the actuators and
\* the hardware are no part of the state
Effect(step) ==
    /\ lf_running' = CASE step = "clear_running" -> FALSE
                       [] step = "set_running" -> TRUE
                       [] OTHER -> lf_running
    /\ lf_event' = CASE step = "set_event" -> TRUE
                     [] step = "clear_event" -> FALSE
                     [] OTHER -> lf_event
    /\ lf_bt' = CASE step = "bluetooth_stop" -> FALSE
                  [] step = "bluetooth_start" -> TRUE
                  [] OTHER -> lf_bt
    /\ lf_usb' = CASE step = "usb_stop" -> FALSE
                   [] step = "usb_start" -> TRUE
                   [] OTHER -> lf_usb
    /\ lf_obstacle' = IF step = "spawn_obstacle" THEN lf_obstacle + 1
                      ELSE lf_obstacle
    /\ lf_object' = IF step = "spawn_object" THEN lf_object + 1
                    ELSE lf_object

\* the statements that touch nothing another thread reads
Local == {"join_obstacle", "join_object", "speak", "camera_cleanup",
          "audio_cleanup", "haptic_cleanup", "gpio_cleanup"}

\* the statements a thread executes in one step: the next one and the
\* local statements that follow it
RECURSIVE Locals(_, _)
Locals(steps, i) ==
    IF i > Len(steps) \/ steps[i] \notin Local THEN <<>>
    ELSE <<steps[i]>> \o Locals(steps, i + 1)

Run(steps, done) ==
    <<steps[Len(done) + 1]>> \o Locals(steps, Len(done) + 2)

\* the next statement of the body of stop(), with the local statements
\* after it; after the last, stop() returns
StopStep(k) ==
    /\ lf_stop[k].in
    /\ LET run  == Run(StopSteps, lf_stop[k].done)
           done == lf_stop[k].done \o run
       IN  /\ Effect(run[1])
           /\ lf_stop' = [lf_stop EXCEPT ![k] =
                             [in |-> Len(done) < Len(StopSteps),
                              done |-> done]]
    /\ UNCHANGED <<lf_start, lf_calls, lf_bodies>>

\* _handle_bt_start_system on a transport reader thread: if not
\* self.running: self.start(), and start(): if self.running: return
StartCall ==
    /\ ~lf_start.in
    /\ lf_bt \/ lf_usb
    /\ ~lf_running
    /\ lf_calls.start < MaxStarts
    /\ lf_calls' = [lf_calls EXCEPT !.start = @ + 1]
    /\ lf_start' = [in |-> TRUE, done |-> <<>>]
    /\ UNCHANGED <<lf_running, lf_event, lf_bt, lf_usb, lf_obstacle,
                   lf_object, lf_stop, lf_bodies>>

\* the next statement of start(); after the last, start() returns
StartStep ==
    /\ lf_start.in
    /\ LET step == StartSteps[Len(lf_start.done) + 1]
           done == Append(lf_start.done, step)
       IN  /\ Effect(step)
           /\ lf_start' = [in |-> Len(done) < Len(StartSteps),
                           done |-> done]
           /\ lf_bodies' = IF step = "set_running" THEN 0 ELSE lf_bodies
    /\ UNCHANGED <<lf_stop, lf_calls>>

\* main has called start(): the flags are set, the transports run, one
\* thread is in each loop
LifeInit ==
    /\ lf_running = TRUE
    /\ lf_event = FALSE
    /\ lf_bt = TRUE
    /\ lf_usb = TRUE
    /\ lf_obstacle = 1
    /\ lf_object = 1
    /\ lf_stop = [k \in Stoppers |-> Out]
    /\ lf_start = Out
    /\ lf_calls = [stop |-> 0, start |-> 0]
    /\ lf_bodies = 0

(***************************************************************************)
(* stop_system: the reader thread that answers the command and the thread  *)
(* it spawned to run CanneApp.stop.                                        *)
(***************************************************************************)

\* the connections whose reader thread has received a stop_system frame
Requesters == {"c1", "c2"}

VARIABLES
    rp_running,  \* CanneApp.running
    rp_bt,       \* BluetoothManager.is_running
    rp_open,     \* the connections whose socket is open
    rp_table,    \* the connections in BluetoothManager.clients
    rp_reader,   \* per connection, its reader thread: "recv" (the frame is
                 \* read), "respond" (the handler has returned), "done"
    rp_reply,    \* per connection: "none", "delivered" or "lost"
    rp_stop      \* per connection, the stop thread its handler spawned: pc
                 \* and the number of statements of the body executed

replyVars == <<rp_running, rp_bt, rp_open, rp_table, rp_reader, rp_reply,
               rp_stop>>

\* _process_received_data up to the return of _handle_bt_stop_system:
\* if self.running: threading.Thread(target=self.stop).start()
HandleStopSystem(c) ==
    /\ rp_reader[c] = "recv"
    /\ rp_reader' = [rp_reader EXCEPT ![c] = "respond"]
    /\ rp_stop' = IF rp_running
                  THEN [rp_stop EXCEPT ![c] = [pc |-> "check", done |-> 0]]
                  ELSE rp_stop
    /\ UNCHANGED <<rp_running, rp_bt, rp_open, rp_table, rp_reply>>

\* self.send_to_client(client_id, response): the id is looked up in the
\* table and the response written to its socket; a write to a closed
\* socket raises and send_to_client returns False
RespondStopSystem(c) ==
    /\ rp_reader[c] = "respond"
    /\ rp_reader' = [rp_reader EXCEPT ![c] = "done"]
    /\ rp_reply' = [rp_reply EXCEPT ![c] =
                       IF c \in rp_table /\ c \in rp_open THEN "delivered"
                       ELSE "lost"]
    /\ UNCHANGED <<rp_running, rp_bt, rp_open, rp_table, rp_stop>>

\* the spawned thread enters stop(): if not self.running: return
SpawnedStopCheck(c) ==
    /\ rp_stop[c].pc = "check"
    /\ rp_stop' = [rp_stop EXCEPT ![c].pc =
                      IF rp_running THEN "body" ELSE "returned"]
    /\ UNCHANGED <<rp_running, rp_bt, rp_open, rp_table, rp_reader, rp_reply>>

\* the next statement of the body of stop(); bluetooth.stop() closes the
\* socket of every entry of the table and rebinds the table, unless the
\* service is stopped already
SpawnedStopStep(c) ==
    /\ rp_stop[c].pc = "body"
    /\ LET step == StopSteps[rp_stop[c].done + 1]
           stops == step = "bluetooth_stop" /\ rp_bt
       IN  /\ rp_running' = IF step = "clear_running" THEN FALSE
                            ELSE rp_running
           /\ rp_bt' = IF step = "bluetooth_stop" THEN FALSE ELSE rp_bt
           /\ rp_open' = IF stops THEN rp_open \ rp_table ELSE rp_open
           /\ rp_table' = IF stops THEN {} ELSE rp_table
           /\ rp_stop' = [rp_stop EXCEPT ![c] =
                             [pc |-> IF rp_stop[c].done + 1 < Len(StopSteps)
                                     THEN "body" ELSE "returned",
                              done |-> rp_stop[c].done + 1]]
    /\ UNCHANGED <<rp_reader, rp_reply>>

\* the application runs, two clients are connected and each reader thread
\* has read a stop_system frame
ReplyInit ==
    /\ rp_running = TRUE
    /\ rp_bt = TRUE
    /\ rp_open = Requesters
    /\ rp_table = Requesters
    /\ rp_reader = [c \in Requesters |-> "recv"]
    /\ rp_reply = [c \in Requesters |-> "none"]
    /\ rp_stop = [c \in Requesters |-> [pc |-> "none", done |-> 0]]

(***************************************************************************)
(* HapticFeedback: vibrate, stop_vibration and the vibration threads,      *)
(* statement by statement.                                                 *)
(***************************************************************************)

\* calls of vibrate over a run
MaxVibrates == 2
\* (on, off) pairs of a pattern, as in vibrate_warning
PatternLen == 2

Vibrations == 1..MaxVibrates

VARIABLES
    hp_vibrating, \* self.vibrating
    hp_event,     \* self.stop_event is set
    hp_pin,       \* level of the motor pin
    hp_caller,    \* the thread in vibrate: its pc and the kind of the call
    hp_thread,    \* per call, its vibration thread: pc, kind ("single" or
                  \* "pattern"), pair of the pattern it is at, and how many
                  \* times it began the pattern
    hp_count      \* calls of vibrate so far

hapticVars == <<hp_vibrating, hp_event, hp_pin, hp_caller, hp_thread,
                hp_count>>

NoVibration == [pc |-> "none", kind |-> "single", pair |-> 0, plays |-> 0]

\* vibrate(duration) or vibrate(pattern=...), the module enabled:
\* stop_vibration() begins with "if self.vibrating"
Vibrate(kind) ==
    /\ hp_caller.pc = "idle"
    /\ hp_count < MaxVibrates
    /\ hp_count' = hp_count + 1
    /\ hp_caller' = [pc |-> IF hp_vibrating THEN "set_event"
                            ELSE "clear_event",
                     kind |-> kind]
    /\ UNCHANGED <<hp_vibrating, hp_event, hp_pin, hp_thread>>

\* stop_vibration: self.stop_event.set()
StopSetEvent ==
    /\ hp_caller.pc = "set_event"
    /\ hp_event' = TRUE
    /\ hp_caller' = [hp_caller EXCEPT !.pc = "join"]
    /\ UNCHANGED <<hp_vibrating, hp_pin, hp_thread, hp_count>>

\* stop_vibration: vibration_thread.join(timeout=0.5) returns, the thread
\* ended or not; GPIO.output(LOW); self.vibrating = False
StopJoinLow ==
    /\ hp_caller.pc = "join"
    /\ hp_pin' = 0
    /\ hp_vibrating' = FALSE
    /\ hp_caller' = [hp_caller EXCEPT !.pc = "clear_event"]
    /\ UNCHANGED <<hp_event, hp_thread, hp_count>>

\* vibrate: self.stop_event.clear()
VibrateClearEvent ==
    /\ hp_caller.pc = "clear_event"
    /\ hp_event' = FALSE
    /\ hp_caller' = [hp_caller EXCEPT !.pc = "spawn"]
    /\ UNCHANGED <<hp_vibrating, hp_pin, hp_thread, hp_count>>

\* vibrate: self.vibration_thread = Thread(...); start()
VibrateSpawn ==
    /\ hp_caller.pc = "spawn"
    /\ hp_thread' = [hp_thread EXCEPT ![hp_count] =
                        [pc |-> "flag", kind |-> hp_caller.kind,
                         pair |-> 0, plays |-> 0]]
    /\ hp_caller' = [hp_caller EXCEPT !.pc = "idle"]
    /\ UNCHANGED <<hp_vibrating, hp_event, hp_pin, hp_count>>

\* _vibrate_single / _vibrate_pattern: self.vibrating = True
ThreadFlag(n) ==
    /\ hp_thread[n].pc = "flag"
    /\ hp_vibrating' = TRUE
    /\ hp_thread' = [hp_thread EXCEPT ![n].pc =
                        IF hp_thread[n].kind = "single" THEN "high"
                        ELSE "test"]
    /\ UNCHANGED <<hp_event, hp_pin, hp_caller, hp_count>>

\* _vibrate_pattern: while not self.stop_event.is_set(); the body ends in
\* break, so the test is made once
ThreadTest(n) ==
    /\ hp_thread[n].pc = "test"
    /\ hp_thread' = [hp_thread EXCEPT ![n] =
                        IF hp_event THEN [@ EXCEPT !.pc = "final_low"]
                        ELSE [@ EXCEPT !.pc = "high", !.pair = 1,
                                       !.plays = @ + 1]]
    /\ UNCHANGED <<hp_vibrating, hp_event, hp_pin, hp_caller, hp_count>>

\* GPIO.output(self.vibration_pin, GPIO.HIGH)
ThreadHigh(n) ==
    /\ hp_thread[n].pc = "high"
    /\ hp_pin' = 1
    /\ hp_thread' = [hp_thread EXCEPT ![n].pc = "wait_on"]
    /\ UNCHANGED <<hp_vibrating, hp_event, hp_caller, hp_count>>

\* self.stop_event.wait(timeout=...) returns: at the event, or at the end
\* of the on time
ThreadWaitOn(n) ==
    /\ hp_thread[n].pc = "wait_on"
    /\ hp_thread' = [hp_thread EXCEPT ![n].pc =
                        IF hp_thread[n].kind = "single" \/ hp_event
                        THEN "final_low" ELSE "low"]
    /\ UNCHANGED <<hp_vibrating, hp_event, hp_pin, hp_caller, hp_count>>

\* _vibrate_pattern: GPIO.output(LOW) after the on time
ThreadLow(n) ==
    /\ hp_thread[n].pc = "low"
    /\ hp_pin' = 0
    /\ hp_thread' = [hp_thread EXCEPT ![n].pc = "wait_off"]
    /\ UNCHANGED <<hp_vibrating, hp_event, hp_caller, hp_count>>

\* _vibrate_pattern: the wait of the off time returns; at the event or
\* after the last pair the loop is left
ThreadWaitOff(n) ==
    /\ hp_thread[n].pc = "wait_off"
    /\ hp_thread' = [hp_thread EXCEPT ![n] =
                        IF hp_event \/ hp_thread[n].pair = PatternLen
                        THEN [@ EXCEPT !.pc = "final_low"]
                        ELSE [@ EXCEPT !.pc = "high", !.pair = @ + 1]]
    /\ UNCHANGED <<hp_vibrating, hp_event, hp_pin, hp_caller, hp_count>>

\* GPIO.output(LOW) at the end of the thread
ThreadFinalLow(n) ==
    /\ hp_thread[n].pc = "final_low"
    /\ hp_pin' = 0
    /\ hp_thread' = [hp_thread EXCEPT ![n].pc = "clear"]
    /\ UNCHANGED <<hp_vibrating, hp_event, hp_caller, hp_count>>

\* self.vibrating = False; the thread ends
ThreadClear(n) ==
    /\ hp_thread[n].pc = "clear"
    /\ hp_vibrating' = FALSE
    /\ hp_thread' = [hp_thread EXCEPT ![n].pc = "done"]
    /\ UNCHANGED <<hp_event, hp_pin, hp_caller, hp_count>>

\* the state after HapticFeedback.__init__
HapticInit ==
    /\ hp_vibrating = FALSE
    /\ hp_event = FALSE
    /\ hp_pin = 0
    /\ hp_caller = [pc |-> "idle", kind |-> "single"]
    /\ hp_thread = [n \in Vibrations |-> NoVibration]
    /\ hp_count = 0

(***************************************************************************)
(* Specifications.                                                         *)
(***************************************************************************)
vars == <<rangingVars, sensorVars, linkVars, readerVars, startVars,
         detectVars, initVars, framingVars, detectorVars, audioVars,
         serverVars, callerVars, lifeVars, replyVars, hapticVars, alertVars>>

\* the state after construction of the application and its modules
Init ==
    /\ RangingInit
    /\ SensorInit
    /\ LinkInit
    /\ ReaderInit
    /\ StartInit
    /\ DetectInit
    /\ AppInit
    /\ FramingInit
    /\ DetectorInit
    /\ AudioInit
    /\ ServerInit
    /\ CallerInit
    /\ LifeInit
    /\ ReplyInit
    /\ HapticInit
    /\ AlertInit

\* what a step of each specification leaves alone
RangingFrame ==
    UNCHANGED <<sensorVars, linkVars, readerVars, startVars, detectVars,
                initVars, framingVars, detectorVars, audioVars, serverVars,
                callerVars, lifeVars, replyVars, hapticVars, alertVars>>
SensorFrame ==
    UNCHANGED <<rangingVars, linkVars, readerVars, startVars, detectVars,
                initVars, framingVars, detectorVars, audioVars, serverVars,
                callerVars, lifeVars, replyVars, hapticVars, alertVars>>
LinkFrame ==
    UNCHANGED <<sensorVars, readerVars, startVars, detectVars, initVars,
                framingVars, detectorVars, audioVars, serverVars, callerVars,
                lifeVars, replyVars, hapticVars, alertVars>>
ReaderFrame ==
    UNCHANGED <<rangingVars, sensorVars, linkVars, startVars, detectVars,
                initVars, framingVars, detectorVars, audioVars, serverVars,
                callerVars, lifeVars, replyVars, hapticVars, alertVars>>
StartFrame ==
    UNCHANGED <<rangingVars, sensorVars, linkVars, readerVars, detectVars,
                initVars, framingVars, detectorVars, audioVars, serverVars,
                callerVars, lifeVars, replyVars, hapticVars, alertVars>>
DetectFrame ==
    UNCHANGED <<sensorVars, linkVars, readerVars, startVars, initVars,
                framingVars, detectorVars, audioVars, serverVars, callerVars,
                lifeVars, replyVars, hapticVars, alertVars>>
InitFrame ==
    UNCHANGED <<rangingVars, sensorVars, linkVars, readerVars, startVars,
                detectVars, framingVars, detectorVars, audioVars, serverVars,
                callerVars, lifeVars, replyVars, hapticVars, alertVars>>
FramingFrame ==
    UNCHANGED <<rangingVars, sensorVars, linkVars, readerVars, startVars,
                detectVars, initVars, detectorVars, audioVars, serverVars,
                callerVars, lifeVars, replyVars, hapticVars, alertVars>>
DetectorFrame ==
    UNCHANGED <<rangingVars, sensorVars, linkVars, readerVars, startVars,
                detectVars, initVars, framingVars, audioVars, serverVars,
                callerVars, lifeVars, replyVars, hapticVars, alertVars>>
AudioFrame ==
    UNCHANGED <<rangingVars, sensorVars, linkVars, readerVars, startVars,
                detectVars, initVars, framingVars, detectorVars, serverVars,
                callerVars, lifeVars, replyVars, hapticVars, alertVars>>
ServerFrame ==
    UNCHANGED <<rangingVars, sensorVars, linkVars, readerVars, startVars,
                detectVars, initVars, framingVars, detectorVars, audioVars,
                callerVars, lifeVars, replyVars, hapticVars, alertVars>>
CallerFrame ==
    UNCHANGED <<rangingVars, sensorVars, linkVars, readerVars, startVars,
                detectVars, initVars, framingVars, detectorVars, audioVars,
                serverVars, lifeVars, replyVars, hapticVars, alertVars>>
LifeFrame ==
    UNCHANGED <<rangingVars, sensorVars, linkVars, readerVars, startVars,
                detectVars, initVars, framingVars, detectorVars, audioVars,
                serverVars, callerVars, replyVars, hapticVars, alertVars>>
ReplyFrame ==
    UNCHANGED <<rangingVars, sensorVars, linkVars, readerVars, startVars,
                detectVars, initVars, framingVars, detectorVars, audioVars,
                serverVars, callerVars, lifeVars, hapticVars, alertVars>>
HapticFrame ==
    UNCHANGED <<rangingVars, sensorVars, linkVars, readerVars, startVars,
                detectVars, initVars, framingVars, detectorVars, audioVars,
                serverVars, callerVars, lifeVars, replyVars, alertVars>>
AlertFrame ==
    UNCHANGED <<sensorVars, linkVars, readerVars, startVars, detectVars,
                initVars, framingVars, detectorVars, audioVars, serverVars,
                callerVars, lifeVars, replyVars, hapticVars>>

\* the ranging loop with the start and the stop of the application
RangingNext ==
    \/ \E btOk \in BOOLEAN, usbOk \in BOOLEAN : AppStart(btOk, usbOk)
          /\ RangingFrame
    \/ AppStopSignal /\ RangingFrame
    \/ AppStopTransports /\ RangingFrame
    \/ \E m \in MeasureTicks : ObstacleTimeout(m) /\ RangingFrame
    \/ \E d \in Distances, m \in MeasureTicks : ObstacleSample(d, m)
          /\ RangingFrame
    \/ ObstacleExit /\ RangingFrame

RangingSpec == Init /\ [][RangingNext]_vars

\* the ranging loop, with the history of its danger alerts
AlertNext ==
    \/ \E btOk \in BOOLEAN, usbOk \in BOOLEAN : AppStart(btOk, usbOk)
          /\ danger_alert_time' = None /\ AlertFrame
    \/ AppStopSignal /\ UNCHANGED danger_alert_time /\ AlertFrame
    \/ AppStopTransports /\ UNCHANGED danger_alert_time /\ AlertFrame
    \/ \E m \in MeasureTicks : ObstacleTimeout(m)
          /\ UNCHANGED danger_alert_time /\ AlertFrame
    \/ \E d \in Distances, m \in MeasureTicks : ObstacleSample(d, m)
          /\ danger_alert_time' =
                 NextDangerAlertTime(danger_alert_time, it'.t, it'.alert)
          /\ AlertFrame
    \/ ObstacleExit /\ UNCHANGED danger_alert_time /\ AlertFrame

AlertSpec == Init /\ [][AlertNext]_vars

\* one call of measure_distance after the other
SensorNext ==
    \/ EchoToggle /\ SensorFrame
    \/ TrigSettle /\ SensorFrame
    \/ TrigHigh /\ SensorFrame
    \/ TrigLow /\ SensorFrame
    \/ \E dt \in StepDeltas : StampStart(dt) /\ SensorFrame
    \/ \E dt \in StepDeltas : StampBudget1(dt) /\ SensorFrame
    \/ RisePoll /\ SensorFrame
    \/ \E dt \in StepDeltas : RiseStamp(dt) /\ SensorFrame
    \/ \E dt \in CheckDeltas : RiseCheck(dt) /\ SensorFrame
    \/ \E dt \in StepDeltas : StampEnd(dt) /\ SensorFrame
    \/ \E dt \in StepDeltas : StampBudget2(dt) /\ SensorFrame
    \/ FallPoll /\ SensorFrame
    \/ \E dt \in StepDeltas : FallStamp(dt) /\ SensorFrame
    \/ \E dt \in CheckDeltas : FallCheck(dt) /\ SensorFrame
    \/ Compute /\ SensorFrame
    \/ Return /\ SensorFrame

SensorSpec == Init /\ [][SensorNext]_vars

\* time one statement can take when only the passing of time matters: a
\* microsecond or more than half the budget
PaceDeltas == {1, 50001}
PaceCheckDeltas == IF polls >= MaxPolls THEN {EchoTimeout + 1} ELSE PaceDeltas

\* the thread in measure_distance, from the call to the return
MeasureThread ==
    (\/ TrigHigh
     \/ TrigLow
     \/ \E dt \in PaceDeltas : StampStart(dt)
     \/ \E dt \in PaceDeltas : StampBudget1(dt)
     \/ RisePoll
     \/ \E dt \in PaceDeltas : RiseStamp(dt)
     \/ \E dt \in PaceCheckDeltas : RiseCheck(dt)
     \/ \E dt \in PaceDeltas : StampEnd(dt)
     \/ \E dt \in PaceDeltas : StampBudget2(dt)
     \/ FallPoll
     \/ \E dt \in PaceDeltas : FallStamp(dt)
     \/ \E dt \in PaceCheckDeltas : FallCheck(dt)
     \/ Compute) /\ SensorFrame

\* calls of measure_distance, the echo input changing at any moment
PacedNext ==
    \/ EchoToggle /\ SensorFrame
    \/ TrigSettle /\ SensorFrame
    \/ TrigHigh /\ SensorFrame
    \/ TrigLow /\ SensorFrame
    \/ \E dt \in PaceDeltas : StampStart(dt) /\ SensorFrame
    \/ \E dt \in PaceDeltas : StampBudget1(dt) /\ SensorFrame
    \/ RisePoll /\ SensorFrame
    \/ \E dt \in PaceDeltas : RiseStamp(dt) /\ SensorFrame
    \/ \E dt \in PaceCheckDeltas : RiseCheck(dt) /\ SensorFrame
    \/ \E dt \in PaceDeltas : StampEnd(dt) /\ SensorFrame
    \/ \E dt \in PaceDeltas : StampBudget2(dt) /\ SensorFrame
    \/ FallPoll /\ SensorFrame
    \/ \E dt \in PaceDeltas : FallStamp(dt) /\ SensorFrame
    \/ \E dt \in PaceCheckDeltas : FallCheck(dt) /\ SensorFrame
    \/ Compute /\ SensorFrame
    \/ Return /\ SensorFrame

\* the calling thread is scheduled and the clock advances
SensorFairSpec == Init /\ [][PacedNext]_vars /\ WF_vars(MeasureThread)

\* the transports, the command handlers and the loop that broadcasts
LinkNext ==
    \/ \E btOk \in BOOLEAN, usbOk \in BOOLEAN : LinkAppStart(btOk, usbOk)
          /\ LinkFrame
    \/ \E id \in ConnectingIds(socks) : BtAccept(id) /\ LinkFrame
    \/ \E s \in Socks : PeerDrop(s) /\ LinkFrame
    \/ \E s \in Socks, raw \in RawFrames :
          \E det \in DetectFor(raw), usbOk \in StartFor(raw) :
              BtRecv(s, raw, det, TRUE, usbOk) /\ LinkFrame
    \/ \E s \in Socks : BtReaderExit(s) /\ LinkFrame
    \/ \E raw \in RawFrames :
          \E det \in DetectFor(raw), btOk \in StartFor(raw) :
              UsbRecvLine(raw, det, btOk, TRUE) /\ LinkFrame
    \/ \E d \in LinkDistances, m \in LinkMeasureTicks : LinkObstacleSample(d, m)
          /\ LinkFrame
    \/ LinkObstacleExit /\ LinkFrame
    \/ \E spawned \in BOOLEAN : LinkStopSignal(spawned) /\ LinkFrame
    \/ StopThreadReturn /\ LinkFrame
    \/ LinkStopTransports /\ LinkFrame

LinkSpec == Init /\ [][LinkNext]_vars

\* the reader threads and their peers
ReaderNext ==
    \/ \E c \in Conns, raw \in ReaderFrames : PeerSend(c, raw) /\ ReaderFrame
    \/ \E c \in BtConns : BtRead(c) /\ ReaderFrame
    \/ \E k \in 1..MaxRequests : UsbReadChunk(k) /\ ReaderFrame
    \/ UsbTakeLine /\ ReaderFrame
    \/ \E c \in Conns, cb \in RegisteredCallback : ReaderReply(c, cb)
          /\ ReaderFrame

ReaderSpec == Init /\ [][ReaderNext]_vars

\* one Bluetooth connection and the serial line, with a data callback that
\* may raise
CallbackConns == {"bt1", "usb"}

CallbackNext ==
    \/ \E c \in CallbackConns, raw \in ReaderFrames : PeerSend(c, raw)
          /\ ReaderFrame
    \/ \E c \in CallbackConns \cap BtConns : BtRead(c) /\ ReaderFrame
    \/ \E k \in 1..MaxRequests : UsbReadChunk(k) /\ ReaderFrame
    \/ UsbTakeLine /\ ReaderFrame
    \/ \E c \in CallbackConns, cb \in CallbackOutcomes : ReaderReply(c, cb)
          /\ ReaderFrame

CallbackSpec == Init /\ [][CallbackNext]_vars

\* the calls of start and stop on the two transports
StartNext ==
    \/ \E t \in Transports, ok \in BOOLEAN : TpStart(t, ok) /\ StartFrame
    \/ \E t \in Transports : TpStop(t) /\ StartFrame
    \/ \E id \in PeerIds : TpAccept(id) /\ StartFrame

StartSpec == Init /\ [][StartNext]_vars

\* the detection loop with the start and the stop of the application
DetectNext ==
    \/ \E btOk \in BOOLEAN, usbOk \in BOOLEAN : DetectAppStart(btOk, usbOk)
          /\ DetectFrame
    \/ DetectStopSignal /\ DetectFrame
    \/ DetectWait /\ DetectFrame
    \/ \E frame \in Frames, detections \in DetectResults :
          DetectCycle(frame, detections) /\ DetectFrame
    \/ DetectExit /\ DetectFrame

DetectSpec == Init /\ [][DetectNext]_vars

\* the construction of the application
InitNext ==
    \E raises \in SUBSET Modules, libs \in SUBSET Optional :
        InitModules(raises, libs) /\ InitFrame

InitSpec == Init /\ [][InitNext]_vars

\* the serial line: the peer writes, the read loop reads
FramingNext ==
    \/ \E b \in Bytes : UsbPeerWrite(b) /\ FramingFrame
    \/ UsbReadBytes /\ FramingFrame

FramingSpec == Init /\ [][FramingNext]_vars

\* one call of detect_objects
DetectorNext ==
    \E frame \in {"none", "image"}, rows \in RawOutputs :
        DetectObjects(frame, rows) /\ DetectorFrame

DetectorSpec == Init /\ [][DetectorNext]_vars

\* the callers of speak and the worker thread
AudioNext ==
    \/ \E empty \in BOOLEAN, priority \in BOOLEAN :
          Speak(empty, priority) /\ AudioFrame
    \/ WorkerPop /\ AudioFrame
    \/ \E failed \in BOOLEAN : WorkerPlayed(failed) /\ AudioFrame
    \/ WorkerExit /\ AudioFrame
    \/ StopAll /\ AudioFrame

AudioSpec == Init /\ [][AudioNext]_vars

\* a thread in _speak_worker: it takes the lock, and a synthesis returns
WorkerThread ==
    (\/ WorkerPop
     \/ \E failed \in BOOLEAN : WorkerPlayed(failed)
     \/ WorkerExit) /\ AudioFrame

\* the worker thread is scheduled
AudioFairSpec == AudioSpec /\ WF_vars(WorkerThread)

\* a running BluetoothManager: the accept thread, the reader threads and a
\* thread calling broadcast()
TableNext ==
    \/ AcceptTest /\ ServerFrame
    \/ \E id \in ClientIds : AcceptReturn(id) /\ ServerFrame
    \/ AcceptError /\ ServerFrame
    \/ AcceptSleep /\ ServerFrame
    \/ AcceptInsert /\ ServerFrame
    \/ AcceptSpawn /\ ServerFrame
    \/ AcceptStore /\ ServerFrame
    \/ \E c \in Accepted : ReaderLookup(c) /\ ServerFrame
    \/ \E c \in Accepted : ReaderTest(c) /\ ServerFrame
    \/ \E c \in Accepted, outcome \in {"data", "eof", "error"} :
          ReaderRecv(c, outcome) /\ ServerFrame
    \/ \E c \in Accepted : ReaderClose(c) /\ ServerFrame
    \/ \E c \in Accepted : ReaderDel(c) /\ ServerFrame
    \/ BroadcastBegin /\ ServerFrame
    \/ \E sent \in BOOLEAN : BroadcastNext(sent) /\ ServerFrame
    \/ BroadcastPurge /\ ServerFrame
    \/ BroadcastRaised /\ ServerFrame

TableSpec == Init /\ [][TableNext]_vars

\* a BluetoothManager that is stopped: the accept thread, the reader
\* threads and a thread calling stop()
ServerNext ==
    \/ AcceptTest /\ ServerFrame
    \/ \E id \in ClientIds : AcceptReturn(id) /\ ServerFrame
    \/ AcceptError /\ ServerFrame
    \/ AcceptSleep /\ ServerFrame
    \/ AcceptInsert /\ ServerFrame
    \/ AcceptSpawn /\ ServerFrame
    \/ AcceptStore /\ ServerFrame
    \/ \E c \in Accepted : ReaderLookup(c) /\ ServerFrame
    \/ \E c \in Accepted : ReaderTest(c) /\ ServerFrame
    \/ \E c \in Accepted, outcome \in {"data", "eof", "error"} :
          ReaderRecv(c, outcome) /\ ServerFrame
    \/ \E c \in Accepted : ReaderClose(c) /\ ServerFrame
    \/ \E c \in Accepted : ReaderDel(c) /\ ServerFrame
    \/ StopFlag /\ ServerFrame
    \/ StopCloseClients /\ ServerFrame
    \/ StopCloseServer /\ ServerFrame
    \/ StopJoinClear /\ ServerFrame

ServerSpec == Init /\ [][ServerNext]_vars

\* the steps the accept thread takes by itself: accept() returning a
\* connection or a transport error is up to the peers, accept() on the
\* closed listening socket raises
AcceptThread ==
    (\/ AcceptTest
     \/ AcceptError /\ sv_listen = "closed"
     \/ AcceptSleep
     \/ AcceptInsert
     \/ AcceptSpawn
     \/ AcceptStore) /\ ServerFrame

\* the steps of stop() after the flag is cleared
StopThread ==
    (StopCloseClients \/ StopCloseServer \/ StopJoinClear) /\ ServerFrame

\* the accept thread and the thread in stop() are scheduled
ServerFairSpec ==
    ServerSpec /\ WF_vars(AcceptThread) /\ WF_vars(StopThread)

\* the threads around CanneApp.start and CanneApp.stop
LifeNext ==
    \/ \E timeout \in BOOLEAN : ObstacleIteration(timeout) /\ LifeFrame
    \/ \E path \in {"not_due", "no_frame", "cycle"} : ObjectIteration(path)
          /\ LifeFrame
    \/ \E k \in Stoppers : StopCall(k) /\ LifeFrame
    \/ \E k \in Stoppers : StopStep(k) /\ LifeFrame
    \/ StartCall /\ LifeFrame
    \/ StartStep /\ LifeFrame

LifeSpec == Init /\ [][LifeNext]_vars

\* the thread that calls vibrate and the vibration threads
HapticNext ==
    \/ \E kind \in {"single", "pattern"} : Vibrate(kind) /\ HapticFrame
    \/ StopSetEvent /\ HapticFrame
    \/ StopJoinLow /\ HapticFrame
    \/ VibrateClearEvent /\ HapticFrame
    \/ VibrateSpawn /\ HapticFrame
    \/ \E n \in Vibrations : ThreadFlag(n) /\ HapticFrame
    \/ \E n \in Vibrations : ThreadTest(n) /\ HapticFrame
    \/ \E n \in Vibrations : ThreadHigh(n) /\ HapticFrame
    \/ \E n \in Vibrations : ThreadWaitOn(n) /\ HapticFrame
    \/ \E n \in Vibrations : ThreadLow(n) /\ HapticFrame
    \/ \E n \in Vibrations : ThreadWaitOff(n) /\ HapticFrame
    \/ \E n \in Vibrations : ThreadFinalLow(n) /\ HapticFrame
    \/ \E n \in Vibrations : ThreadClear(n) /\ HapticFrame

HapticSpec == Init /\ [][HapticNext]_vars

\* the reader threads that handle stop_system and the threads they spawn
ReplyNext ==
    \/ \E c \in Requesters : HandleStopSystem(c) /\ ReplyFrame
    \/ \E c \in Requesters : RespondStopSystem(c) /\ ReplyFrame
    \/ \E c \in Requesters : SpawnedStopCheck(c) /\ ReplyFrame
    \/ \E c \in Requesters : SpawnedStopStep(c) /\ ReplyFrame

ReplySpec == Init /\ [][ReplyNext]_vars

\* every thread of the application is scheduled: the loop threads, the
\* threads in stop() and the thread in start()
LifeFairSpec ==
    /\ LifeSpec
    /\ WF_vars((\E timeout \in BOOLEAN : ObstacleIteration(timeout))
                  /\ LifeFrame)
    /\ WF_vars((\E path \in {"not_due", "no_frame", "cycle"} :
                    ObjectIteration(path)) /\ LifeFrame)
    /\ \A k \in Stoppers : WF_vars(StopStep(k) /\ LifeFrame)
    /\ WF_vars(StartStep /\ LifeFrame)

\* the ranging loop and the transport threads around the sensor
CallerNext ==
    \/ LoopMeasure /\ CallerFrame
    \/ LoopMeasured /\ CallerFrame
    \/ \E k \in Callers, timeout \in BOOLEAN :
          MeasureStep(k, timeout) /\ CallerFrame
    \/ \E t \in TransportThreads, command \in QueryCommands :
          TransportCommand(t, command) /\ CallerFrame
    \/ \E t \in TransportThreads : TransportRespond(t) /\ CallerFrame

CallerSpec == Init /\ [][CallerNext]_vars

(***************************************************************************)
(* Properties of the ranging loop (RangingSpec).                           *)
(***************************************************************************)

\* a step that takes a valid sample / a Timeout sample
SampleStep == now' > now /\ it'.kind = "valid"
TimeoutStep == now' > now /\ it'.kind = "timeout"

\* C2: every alert emitted for a valid sample d is Danger exactly when
\* d < danger_cm and Warning exactly when danger_cm <= d < warning_cm, with the
\* matching actuator calls; d >= warning_cm never alerts, and d < warning_cm
\* with the gate open always alerts.
C2_Classification ==
    it.kind = "valid" =>
        LET d == Val(it.d)
        IN  /\ DangerDistance < WarningDistance
            /\ (it.alert = "danger") <=> (it.gate /\ d < DangerDistance)
            /\ (it.alert = "warning") <=>
                   (it.gate /\ DangerDistance <= d /\ d < WarningDistance)
            /\ (d >= WarningDistance) => (it.alert = "none" /\ it.calls = <<>>)
            /\ (it.alert = "danger") =>
                   it.calls = <<"speak_priority", "vibrate_danger">>
            /\ (it.alert = "warning") => it.calls = <<"speak", "vibrate_warning">>

\* C2 witness: a sample exactly at danger_cm raised a Warning, not a Danger
C2_Witness ==
    /\ it.kind = "valid" /\ it.gate
    /\ Val(it.d) = DangerDistance /\ it.alert = "warning"

\* C3: once an alert has been emitted, the next valid sample that differs from
\* the previous valid sample by at most change_threshold_cm and is taken at
\* most min_alert_interval_s after the last emission emits nothing.
C3_Hysteresis ==
    [][(/\ SampleStep
        /\ hist.d # None /\ hist.emit_t # None
        /\ Abs(Val(it'.d) - Val(hist.d)) <= ChangeThreshold
        /\ it'.t - Val(hist.emit_t) <= AlertInterval)
       => (it'.alert = "none" /\ it'.calls = <<>>
           /\ hist'.emit_t = hist.emit_t)]_rangingVars

\* C3 witness: a sample below warning_cm was suppressed right after the
\* sample that emitted, ten centimetres away from it
C3_Witness ==
    /\ it.kind = "valid" /\ it.alert = "none" /\ ~it.gate
    /\ Val(it.d) = DangerDistance
    /\ hist.emit_d = Some(40)
    /\ it.t - Val(hist.emit_t) <= MeasureInterval + MaxMeasureTicks

\* C4 as stated: a valid sample that emits nothing leaves last_distance and
\* last_alert_time unchanged.
C4_OnlyOnEmission ==
    [][(SampleStep /\ it'.alert = "none")
       => (last_distance' = last_distance /\ last_alert_time' = last_alert_time)
      ]_rangingVars

\* C4 amended: last_alert_time changes exactly on emission; last_distance takes
\* the distance of every valid sample, emitting or not, so the gate compares
\* with the previous valid sample; a Timeout sample changes neither.
C4_UpdateRule ==
    [][/\ SampleStep =>
            /\ last_distance' = it'.d
            /\ last_distance' = hist'.d
            /\ last_alert_time' =
                 IF it'.alert # "none" THEN it'.t ELSE last_alert_time
            /\ it'.gate <=> (\/ hist.d = None
                             \/ Abs(Val(it'.d) - Val(hist.d)) > ChangeThreshold
                             \/ it'.t - last_alert_time > AlertInterval)
       /\ TimeoutStep =>
            (last_distance' = last_distance /\ last_alert_time' = last_alert_time)
      ]_rangingVars

\* C4 witness: after a sample that emitted nothing, last_distance is that
\* sample's distance and no longer the distance of the last emitted alert
C4_Witness ==
    /\ it.kind = "valid" /\ it.alert = "none"
    /\ hist.emit_d # None
    /\ last_distance = it.d
    /\ last_distance # hist.emit_d

\* C5 as stated: a constant distance over ten seconds is broadcast on every
\* tick and raises at most two alerts.
C5_AtMostTwoAlerts ==
    hist.run = "const" =>
        (hist.run_bcasts = hist.run_n /\ hist.run_alerts <= 2)

\* C5 amended: a constant distance over ten seconds is broadcast on every
\* tick (at most ten ticks) and raises at most four alerts, none at all when
\* the distance is not below warning_cm.
C5_ConstantRun ==
    hist.run = "const" =>
        /\ hist.run_bcasts = hist.run_n
        /\ hist.run_n <= 10
        /\ hist.run_alerts <= 4
        /\ (hist.run_d >= WarningDistance) => hist.run_alerts = 0
        /\ (hist.run_d < WarningDistance) => hist.run_alerts >= 1

\* C5 witness: ten ticks of a constant distance below danger_cm, four alerts
C5_Witness ==
    /\ hist.run = "const" /\ hist.run_d < DangerDistance
    /\ hist.run_n = 10 /\ hist.run_bcasts = 10 /\ hist.run_alerts = 4

\* C6: for a valid sample the broadcast is decided by now - last_broadcast_time
\* alone, whatever the alert outcome; the broadcast timer is moved by the
\* broadcast only and the alert state by the alert decision only.
C6_IndependentTimers ==
    [][SampleStep =>
         /\ it'.bcast <=> (it'.t - last_broadcast_time > BroadcastInterval)
         /\ last_broadcast_time' =
              IF it'.bcast THEN it'.t ELSE last_broadcast_time
         /\ it'.sent = IF it'.bcast
                       THEN TransportsFor(bt_is_running, usb_is_running) ELSE {}
         /\ last_alert_time' =
              IF it'.alert # "none" THEN it'.t ELSE last_alert_time
         /\ last_distance' = it'.d
      ]_rangingVars

\* C6 witness: a sample whose alert was suppressed by the gate was broadcast
C6_Witness ==
    /\ it.kind = "valid" /\ ~it.gate /\ it.alert = "none"
    /\ Val(it.d) < WarningDistance
    /\ it.bcast /\ it.sent = {"bluetooth", "usb"}
    /\ last_broadcast_time = it.t /\ last_alert_time < it.t

\* C7: a Timeout sample emits nothing, calls no actuator, broadcasts nothing,
\* leaves the three state fields unchanged, and the loop stays in its cycle
\* after the backoff.
C7_TimeoutFrame ==
    [][TimeoutStep =>
         /\ it'.alert = "none" /\ it'.calls = <<>>
         /\ ~it'.bcast /\ it'.sent = {}
         /\ UNCHANGED <<last_distance, last_alert_time, last_broadcast_time>>
         /\ hist'.emit_t = hist.emit_t
         /\ obs_pc' = "loop"
         /\ now' >= it'.t + BackoffTicks
      ]_rangingVars

\* C7 witness: a valid sample was taken after a Timeout sample
C7_Witness ==
    /\ it.kind = "valid" /\ hist.timeouts > 0
    /\ obs_pc = "loop"

\* C20: while valid samples below warning_cm keep arriving at the sampling
\* cadence, a sample taken more than min_alert_interval after the last alert
\* emits an alert, so that two consecutive alerts are never further apart
\* than min_alert_interval plus one sampling tick, constant distance
\* included.
C20_PeriodicReAlert ==
    [][(/\ SampleStep
        /\ it.kind = "valid"
        /\ Val(it.d) < WarningDistance
        /\ Val(it'.d) < WarningDistance) =>
           /\ hist.emit_t # None
           /\ it'.t - Val(hist.emit_t) <= AlertInterval + (it'.t - it.t)
           /\ it'.t - Val(hist.emit_t) > AlertInterval => it'.alert # "none"
      ]_rangingVars

\* C20 witness: at a constant distance below warning_cm the second alert of
\* the run came from the timer alone
C20_Witness ==
    /\ it.kind = "valid" /\ it.alert # "none"
    /\ hist.run = "const" /\ hist.run_d < WarningDistance
    /\ hist.run_alerts = 2
    /\ hist.timeouts = 0

\* C35: every valid sample below danger_cm gets a danger alert, or a danger
\* alert was emitted in the 3 s before it; and a sample below danger_cm
\* that follows a sample of the warning zone at most 10 cm farther gets a
\* danger alert.
C35_DangerNotMissed ==
    /\ []((it.kind = "valid" /\ Val(it.d) < DangerDistance) =>
             \/ it.alert = "danger"
             \/ /\ danger_alert_time # None
                /\ it.t - Val(danger_alert_time) <= AlertInterval)
    /\ [][(/\ it'.kind = "valid" /\ now' # now
           /\ Val(it'.d) < DangerDistance
           /\ last_distance # None
           /\ AlertLevel(Val(last_distance)) = "warning"
           /\ Val(last_distance) - Val(it'.d) <= ChangeThreshold) =>
              it'.alert = "danger"]_vars

(***************************************************************************)
(* Properties of measure_distance (SensorSpec).                            *)
(***************************************************************************)

MaxHundredths == MaxDistance * 100

\* C8: for a pulse of duration d between the recorded rise and fall instants
\* the call returns d * 17150 rounded to two decimals when that is within
\* max_distance and exactly max_distance otherwise; never more than
\* max_distance, and never the failure value.
C8_DistanceOfPulse ==
    /\ (us_result # None) => Val(us_result) <= MaxHundredths
    /\ (us_pc = "done" /\ us_obs.duration # None) =>
          LET d == Val(us_obs.duration)
              p == d * SoundNum
          IN  /\ d = pulse_end - pulse_start
              /\ us_result # None
              /\ IF 2 * p <= (2 * MaxHundredths + 1) * SoundDen
                 THEN 2 * Abs(SoundDen * Val(us_result) - p) <= SoundDen
                 ELSE Val(us_result) = MaxHundredths

\* C8 witness: a pulse longer than the one of max_distance returned exactly
\* max_distance
C8_Witness ==
    /\ us_pc = "done" /\ us_obs.duration # None
    /\ Val(us_obs.duration) * SoundNum > (MaxHundredths + 1) * SoundDen
    /\ Val(us_obs.duration) <= EchoTimeout
    /\ us_result = Some(MaxHundredths)

\* C9: a call during which the echo input never went high, or went high and
\* never came back low, returns None from the polling phase concerned, only
\* after more than the 100 ms budget of that phase, and computes no distance.
C9_TimeoutOutcome ==
    us_pc = "done" =>
        /\ ~us_obs.rose =>
              (us_result = None /\ us_obs.phase = "rise")
        /\ (us_obs.rose /\ ~us_obs.fell) =>
              (us_result = None /\ us_obs.phase \in {"rise", "fall"})
        /\ (us_obs.phase # "none") <=> (us_result = None)
        /\ (us_obs.phase # "none") <=> (us_obs.duration = None)
        /\ (us_obs.phase # "none") => us_obs.elapsed > EchoTimeout

\* C9 witness: the echo input stayed low and the call returned None from the
\* rise phase
C9_Witness ==
    /\ us_pc = "done" /\ ~us_obs.rose /\ echo = 0
    /\ us_obs.phase = "rise" /\ us_result = None
    /\ us_obs.duration = None

\* the phase of the call a statement belongs to
SensorPhase(pc) ==
    CASE pc = "idle" -> "Idle"
      [] pc \in {"trig_high", "trig_low"} -> "Triggering"
      [] pc \in {"stamp_start", "stamp_budget1", "rise_poll", "rise_stamp",
                 "rise_check"} -> "AwaitEchoRise"
      [] pc \in {"stamp_end", "stamp_budget2", "fall_poll", "fall_stamp",
                 "fall_check"} -> "AwaitEchoFall"
      [] pc = "compute" -> "Computed"
      [] pc = "done" -> IF us_result = None THEN "Timeout" ELSE "Computed"

\* the phase changes a call can make
PhaseOrder ==
    {<<"Idle", "Triggering">>, <<"Triggering", "AwaitEchoRise">>,
     <<"AwaitEchoRise", "AwaitEchoFall">>, <<"AwaitEchoRise", "Timeout">>,
     <<"AwaitEchoFall", "Computed">>, <<"AwaitEchoFall", "Timeout">>,
     <<"Computed", "Idle">>, <<"Timeout", "Idle">>}

\* C33: every call of measure_distance ends: it goes from Idle through
\* Triggering, AwaitEchoRise and AwaitEchoFall in that order, a polling
\* phase ends when the echo input is read at the awaited level or when more
\* than 100 ms have passed since the phase began, the trigger output is low
\* again (after low, high, low) before the echo input is polled, and the
\* call ends with a distance or with the time-out value.
C33_MeasureTerminates ==
    /\ (us_pc # "idle") ~> (us_pc = "done")
    /\ [][LET from == SensorPhase(us_pc)
              to   == IF us_pc' = "done" /\ us_result' = None THEN "Timeout"
                      ELSE IF us_pc' = "done" THEN "Computed"
                      ELSE SensorPhase(us_pc)'
          IN  /\ from # to => <<from, to>> \in PhaseOrder
              /\ (from = "AwaitEchoRise" /\ to = "AwaitEchoFall") => echo = 1
              /\ (from = "AwaitEchoFall" /\ to = "Computed") => echo = 0
              /\ (from # "Timeout" /\ to = "Timeout") =>
                    (TimedOut(clk', timeout_start) /\ clk' > clk)
              /\ (us_pc \in {"rise_check", "fall_check"} /\ us_pc' # us_pc
                     /\ to = from) =>
                    (clk' > clk /\ ~TimedOut(clk', timeout_start))]_vars
    /\ [](SensorPhase(us_pc) \in {"AwaitEchoRise", "AwaitEchoFall"} =>
             (trig_pin = 0 /\ trig_log = <<0, 1, 0>>))
    /\ [](us_pc = "done" =>
             \/ us_result # None /\ us_obs.phase = "none"
             \/ us_result = None /\ us_obs.phase \in {"rise", "fall"})

\* C33 witness: the echo input went high and stayed high, and the call
\* ended with the time-out of its second polling phase, the trigger low
C33_Witness ==
    /\ us_pc = "done" /\ us_result = None /\ us_obs.phase = "fall"
    /\ us_obs.rose /\ ~us_obs.fell /\ echo = 1
    /\ trig_pin = 0 /\ polls > 0

(***************************************************************************)
(* Properties of the link specification.                                   *)
(***************************************************************************)

\* C1: a broadcast writes to every entry of the client table, in table
\* order, whichever writes fail; when it returns, every entry whose write
\* failed has its socket closed and its id absent from the table, and every
\* entry whose write succeeded is still in the table with its socket.
C1_BroadcastIsolation ==
    op.name = "broadcast" =>
        /\ Len(op.attempted) = Len(op.before)
        /\ \A i \in DOMAIN op.before :
              LET e == op.before[i]
              IN  /\ op.attempted[i].id = e.id
                  /\ op.attempted[i].sock = e.sock
                  /\ op.attempted[i].ok = (e.sock \in op.up)
                  /\ e.sock \notin op.up =>
                        /\ socks[e.sock].state = "closed"
                        /\ e.id \notin TableIds(clients)
                  /\ e.sock \in op.up =>
                        /\ socks[e.sock].state = "open"
                        /\ \E j \in DOMAIN clients : clients[j] = e

\* a broadcast over two clients or more in which the first write failed and
\* a later one succeeded
C1_Witness ==
    /\ op.name = "broadcast"
    /\ Len(op.before) >= 2
    /\ op.before[1].sock \notin op.up
    /\ op.before[2].sock \in op.up
    /\ ~op.attempted[1].ok
    /\ op.attempted[2].ok
    /\ op.before[1].id \notin TableIds(clients)
    /\ op.before[2].id \in TableIds(clients)

\* a step that processes one received frame
FrameStep == op'.name = "frame"

\* the frame is a JSON object whose command is not in the command table
UnregisteredCommand(raw) ==
    raw \in RawFrames \ ({"{}", "[]", "garbage"} \cup CommandTable)

\* the handles a response to the frame's sender can be written on: the
\* serial line, or the socket registered under the sender's id while its
\* link is up
AnswerHandles ==
    IF op'.via = "usb" THEN {SerialLine}
    ELSE {clients[i].sock : i \in {j \in DOMAIN clients :
              /\ clients[j].id = socks[op'.sock].id
              /\ socks[clients[j].sock].state = "open"
              /\ socks[clients[j].sock].peer}}

\* C10: on either transport a frame with an unregistered command produces a
\* response of status "error" whose message names the command and which is
\* written to the sender, invokes no handler, and leaves the running flag,
\* the stop event, the loop and its alert state, the client table and the
\* transports as they were.
C10_UnknownCommand ==
    [][(FrameStep /\ UnregisteredCommand(op'.raw)) =>
          /\ op'.response =
                Some([status |-> "error",
                      message |-> <<"Commande", op'.raw, "non reconnue">>])
          /\ op'.handler = "none"
          /\ op'.written = AnswerHandles
          /\ UNCHANGED <<running, stop_event, obs_pc, last_distance,
                         last_alert_time, last_broadcast_time, clients, socks,
                         bt_is_running, usb_is_running, stop_threads, stop_pc>>
      ]_vars

\* an unregistered command was answered on its own connection while the
\* system was running with an alert state and a client table
C10_Witness ==
    /\ op.name = "frame"
    /\ op.via = "bluetooth"
    /\ op.raw = "reboot"
    /\ op.response # None
    /\ Val(op.response).status = "error"
    /\ op.written = {op.sock}
    /\ running
    /\ last_distance # None
    /\ clients # <<>>

\* C11: on both transports a frame that cannot be decoded is answered with
\* the error response "Format de données invalide", written to the peer that
\* sent it, and the connection and its reader stay as they were.
C11_InvalidAnswered ==
    (op.name = "frame" /\ op.raw = "garbage") =>
        /\ op.response =
              Some([status |-> "error",
                    message |-> <<"Format de données invalide">>])
        /\ op.via = "usb" =>
              (op.written = {SerialLine} /\ usb_conn = "open"
               /\ usb_reader = "running")
        /\ op.via = "bluetooth" =>
              (socks[op.sock].state = "open"
               /\ socks[op.sock].reader = "running")

\* C12: every frame a client's reader thread receives, whatever it holds,
\* has one response, written on the connection it came in on.
C12_OneResponse ==
    (op.name = "frame" /\ op.via = "bluetooth") =>
        /\ op.response # None
        /\ op.written = {op.sock}


\* C14: when the stop of a running Bluetooth server returns, no reader
\* thread of that server is still alive, however many clients were connected.
C14_NoLiveReaders ==
    (op.name = "stop_transports" /\ "bluetooth" \in op.up) =>
        \A s \in Socks : socks[s].reader # "running"

\* C18: when the reader thread of a connection ends (zero-length read, read
\* timeout or I/O error), the handle of that connection is closed and its id
\* is no longer in the client table, while the accept loop, the handles and
\* reader threads of the other connections and the table entries of the
\* other ids stay as they were.
C18_ReaderCleanup ==
    [][\A s \in Socks :
          (op'.name = "reader_exit" /\ op'.sock = s) =>
              /\ socks'[s].state = "closed"
              /\ socks'[s].reader = "exited"
              /\ socks[s].id \notin TableIds(clients')
              /\ {clients'[i] : i \in DOMAIN clients'} =
                     {clients[i] : i \in {k \in DOMAIN clients :
                                             clients[k].id # socks[s].id}}
              /\ \A r \in Socks \ {s} : socks'[r] = socks[r]
              /\ UNCHANGED <<accept_pc, bt_is_running, next_sock>>
      ]_vars

\* a reader thread has ended while another client is connected, registered
\* and served, and the accept loop runs
C18_Witness ==
    /\ op.name = "reader_exit"
    /\ socks[op.sock].id \notin TableIds(clients)
    /\ accept_pc = "running"
    /\ \E r \in Socks \ {op.sock} :
          /\ socks[r].state = "open"
          /\ socks[r].reader = "running"
          /\ [id |-> socks[r].id, sock |-> r] \in
                 {clients[i] : i \in DOMAIN clients}

\* C23: the response to get_status carries in last_distance the most
\* recent valid distance measured by the ranging loop, and none only before
\* any valid sample.
C23_StatusLastDistance ==
    (op.name = "frame" /\ op.handler = "get_status") =>
        Val(op.response).data.last_distance = hist.d

(***************************************************************************)
(* Properties of the reader threads (ReaderSpec).                          *)
(***************************************************************************)

\* C13: on each connection, Bluetooth or USB, the responses are written to
\* the peer in the order in which their requests were read, and each one is
\* written before the thread reads the next request of that connection,
\* however the threads of the other connections interleave.
C13_ResponseOrder ==
    \A c \in Conns : \A i \in 1..Len(rd_wire[c]) :
        /\ rd_wire[c][i].last = rd_wire[c][i].n
        /\ \A j \in 1..(i - 1) : rd_wire[c][j].n < rd_wire[c][i].n

\* two connections have answered two requests each while a third one is in
\* the middle of a request
C13_Witness ==
    /\ Len(rd_wire["bt1"]) = 2
    /\ Len(rd_wire["usb"]) = 2
    /\ rd_pending["bt2"] # <<>>
    /\ rd_wire["bt2"] = <<>>


\* the requests of connection c whose response is on the wire
Answered(c) == {rd_wire[c][j].n : j \in 1..Len(rd_wire[c])}

C15_StartIdempotent ==
    /\ (tp_last.name = "start" /\ tp_last.before.is_running) =>
           /\ tp_last.ret = Some(TRUE)
           /\ tp[tp_last.t] = tp_last.before
           /\ tp[tp_last.t].handles = 1
           /\ tp[tp_last.t].threads = 1
    /\ (tp_last.name = "start" /\ tp_last.ret = Some(TRUE)) =>
           \A ok \in BOOLEAN :
               /\ StartOf(tp[tp_last.t], ok) = tp[tp_last.t]
               /\ StartReturn(tp[tp_last.t], ok)

\* start is called on the running Bluetooth server that has a client
C15_Witness ==
    /\ tp_last.name = "start"
    /\ tp_last.t = "bluetooth"
    /\ tp_last.before.is_running
    /\ tp_last.before.clients # {}
    /\ tp["usb"].is_running


(***************************************************************************)
(* Properties of the detection loop (DetectSpec).                          *)
(***************************************************************************)

\* C16: the ranging loop and the detection loop end only after a stop was
\* signalled (stop_event set or running cleared); no failure inside one
\* cycle makes a loop exit while the system is running.
C16_LoopsEndOnStopOnly ==
    (obs_pc = "exited" \/ det_pc = "exited") =>
        ~LoopContinues(stop_event, running)

\* C17: a detection cycle that returns at least one result speaks the
\* summary, triggers the info pulse, broadcasts an objects_update payload
\* with the labels and the confidences to every running transport, and the
\* loop goes on with its next cycle.
C17_DetectionAnnounced ==
    (det_obs.cycle /\ det_obs.detections # <<>>) =>
        /\ det_obs.spoke
        /\ det_obs.vibrated
        /\ det_obs.payload = Some(ObjectsPayload(det_obs.detections))
        /\ det_obs.sent = TransportsFor(bt_is_running, usb_is_running)
        /\ det_pc = "loop" \/ ~LoopContinues(stop_event, running)


(***************************************************************************)
(* Properties of the construction of the application (InitSpec).           *)
(***************************************************************************)

\* C21: when the constructor of a module raises during init_modules, the
\* initialisation still completes, with that module set to none and every
\* other module initialised.
C21_InitDegrades ==
    init_status # "new" =>
        /\ init_status = "initialised"
        /\ \A m \in Modules :
              modules[m] =
                  IF m \in init_in.raises \/ ~Constructs(m, init_in.libs)
                  THEN "none" ELSE "ready"

(***************************************************************************)
(* Properties of the USB framing (FramingSpec).                            *)
(***************************************************************************)

\* C22: however the byte stream was cut into reads, the frames passed to
\* _process_received_data are the non-blank newline-terminated lines of
\* the bytes read, each once and in stream order, and the bytes after the
\* last newline are in the buffer.
C22_FramingChunkIndependent ==
    /\ fr_frames = NonBlank(Complete(SplitLines(fr_read)))
    /\ fr_buffer = SplitLines(fr_read)[Len(SplitLines(fr_read))]

\* a line cut in two by the reads was delivered whole, and the start of the
\* next line waits in the buffer
C22_Witness ==
    /\ fr_read = <<"a", "a", NL, "a">>
    /\ fr_frames = << <<"a", "a">> >>
    /\ fr_buffer = <<"a">>
    /\ fr_wire = <<>>

(***************************************************************************)
(* Properties of detect_objects (DetectorSpec).                            *)
(***************************************************************************)

\* the rows of the network whose confidence is strictly above the threshold
Above == {i \in DOMAIN od_rows : od_rows[i] > ConfidenceThreshold}

\* the rows the result was made from
Chosen == {od_result[k][1] : k \in DOMAIN od_result}

\* C24: detect_objects returns exactly the detections whose confidence is
\* strictly above the threshold, by descending confidence, cut to the
\* max_detections highest ones; an empty or missing frame gives the empty
\* list.
C24_DetectSelection ==
    /\ od_frame = "none" => od_result = <<>>
    /\ od_frame = "image" =>
          /\ Chosen \subseteq Above
          /\ \A k \in DOMAIN od_result :
                od_result[k][2] = od_rows[od_result[k][1]]
          /\ \A k, l \in DOMAIN od_result :
                /\ k < l => od_result[k][2] >= od_result[l][2]
                /\ k # l => od_result[k][1] # od_result[l][1]
          /\ Len(od_result) =
                 IF Cardinality(Above) > MaxDetections THEN MaxDetections
                 ELSE Cardinality(Above)
          /\ \A i \in Above \ Chosen : \A k \in DOMAIN od_result :
                od_rows[i] <= od_result[k][2]

\* six rows, one of them at the threshold and five above it out of order:
\* five results
C24_Witness ==
    /\ od_frame = "image"
    /\ od_rows = <<60, 50, 90, 60, 90, 60>>
    /\ Len(od_result) = MaxDetections
    /\ od_result[1][1] = 3

\* C28: start_system and stop_system are both applied by a control thread
\* spawned for it: the step of the reader thread that handles either
\* command and answers it leaves the run state of the orchestrator as it
\* was, the start or stop sequence being no part of it.
C28_ControlThread ==
    [][(op'.name = "frame" /\ op'.handler \in {"start_system", "stop_system"})
          => (running' = running /\ stop_event' = stop_event
                /\ obs_pc' = obs_pc)]_vars

(***************************************************************************)
(* Properties of the speech queue (AudioSpec).                             *)
(***************************************************************************)

\* text n was played, and before text m when m was played too
PlayedBefore(n, m) ==
    \E i \in DOMAIN au_spoken :
        /\ au_spoken[i] = n
        /\ \A j \in DOMAIN au_spoken : au_spoken[j] = m => i < j

\* text m was taken by the worker
Taken(m) ==
    au_playing = Some(m) \/ \E j \in DOMAIN au_spoken : au_spoken[j] = m

\* C25: speak with priority puts the message at the head of the queue, so
\* that it is spoken before every message without priority that waited when
\* it was enqueued; speak without priority appends at the tail; speak with
\* an empty text changes neither the queue nor the worker state.
C25_PriorityFirst ==
    /\ au_last.name = "speak" =>
          /\ au_last.text = 0 =>
                (speech_queue = au_last.queue /\ speaking = au_last.speaking)
          /\ (au_last.text # 0 /\ au_last.priority) =>
                speech_queue =
                    <<[text |-> au_last.text, priority |-> TRUE]>>
                        \o au_last.queue
          /\ (au_last.text # 0 /\ ~au_last.priority) =>
                speech_queue =
                    Append(au_last.queue,
                           [text |-> au_last.text, priority |-> FALSE])
    /\ \A n \in 1..au_count : \A k \in DOMAIN au_pending[n].waiting :
          LET m == au_pending[n].waiting[k]
          IN  (au_pending[n].priority /\ ~m.priority /\ Taken(m.text)) =>
                  (Taken(n) /\ (au_playing # Some(m.text) =>
                                   PlayedBefore(n, m.text)))

\* a priority message enqueued behind two waiting messages was played
\* before both
C25_Witness ==
    /\ au_pending[3].priority
    /\ Len(au_pending[3].waiting) = 2
    /\ ~au_pending[3].waiting[1].priority
    /\ ~au_pending[3].waiting[2].priority
    /\ au_spoken = <<3, 1, 2>>

(***************************************************************************)
(* Properties of the threads of BluetoothManager (TableSpec, ServerSpec).  *)
(***************************************************************************)

\* C26: every access to the client table excludes every other: no
\* insertion by the accept thread and no removal by a reader thread happens
\* while a broadcast is iterating over the table.
C26_TableExclusive ==
    sv_last.op \in {"insert", "remove"} => ~sv_last.iterating

\* every thread of the server has come to rest
Quiescent ==
    /\ sv_stop = "returned"
    /\ sv_accept.pc = "done"
    /\ \A c \in Accepted : sv_reader[c].pc \in {"none", "done", "dead"}

\* C29: when stop() returns, is_running is false, the listening socket is
\* closed and the client table is empty; and every connection accepted
\* before or while stop() ran is closed in the end, the threads having come
\* to rest, a connection accepted while stop() was running included.
C29_StopCloses ==
    /\ sv_last.op = "clear" =>
          (~sv_running /\ sv_listen = "closed" /\ Keys(sv_clients) = {})
    /\ Quiescent =>
          \A c \in Accepted : sv_sock[c] \in {"none", "closed"}

C27_OnlyLoopMeasures ==
    /\ InCall \subseteq {"loop"}
    /\ Cardinality(InCall) <= 1

(***************************************************************************)
(* Properties of CanneApp.start and CanneApp.stop (LifeSpec).              *)
(***************************************************************************)

\* the phase of the shutdown a statement of stop() belongs to: the stop
\* signal, the joins, the transports, the actuators (and the camera), the
\* release of the GPIO
Phase(step) ==
    CASE step \in {"clear_running", "set_event"} -> 1
      [] step \in {"join_obstacle", "join_object"} -> 2
      [] step \in {"bluetooth_stop", "usb_stop"} -> 3
      [] step \in {"speak", "camera_cleanup", "audio_cleanup",
                   "haptic_cleanup"} -> 4
      [] step = "gpio_cleanup" -> 5

Did(k, step) == \E i \in DOMAIN lf_stop[k].done : lf_stop[k].done[i] = step

\* C31: every execution of stop() signals the stop, then joins the loop
\* threads, then stops each transport, then stops the actuators, then
\* releases the GPIO last: no transport is stopped before the stop signal
\* is set and nothing is released before every transport has been stopped.
C31_ShutdownOrder ==
    \A k \in Stoppers :
        /\ \A i, j \in DOMAIN lf_stop[k].done :
              i < j => Phase(lf_stop[k].done[i]) <= Phase(lf_stop[k].done[j])
        /\ (Did(k, "bluetooth_stop") \/ Did(k, "usb_stop")) =>
              (Did(k, "clear_running") /\ Did(k, "set_event"))
        /\ Did(k, "gpio_cleanup") =>
              /\ Did(k, "bluetooth_stop") /\ Did(k, "usb_stop")
              /\ Did(k, "join_obstacle") /\ Did(k, "join_object")
              /\ lf_stop[k].done[Len(lf_stop[k].done)] = "gpio_cleanup"

\* an execution of stop() has run to its end
C31_Witness ==
    \E k \in Stoppers :
        ~lf_stop[k].in /\ Len(lf_stop[k].done) = Len(StopSteps)


\* running is cleared and stop_event is set
Signaled == lf_event /\ ~lf_running

\* C32: once the stop has been signaled, the ranging loop and the detection
\* loop see it at their next loop test and, the threads being scheduled,
\* both loops end, whatever the sensor and the camera return.
C32_LoopsTerminate ==
    Signaled ~> (lf_obstacle = 0 /\ lf_object = 0)

\* C36: at most one thread is in obstacle_detection_loop, whatever the
\* interleaving of start() and stop().
C36_OneRangingThread == lf_obstacle <= 1

\* C37: between two starts the body of stop() is entered at most once,
\* however many threads call stop().
C37_StopBodyOnce == lf_bodies <= 1


\* text n is waiting in the queue
Queued(n) == \E i \in DOMAIN speech_queue : speech_queue[i].text = n

\* C34: at most one worker thread consumes the queue; speak starts one
\* when none is alive and only then; a worker ends only when it finds the
\* queue empty; a text leaves the queue only to be synthesised or by
\* stop_all, and every text in the queue does leave it, also after a failed
\* synthesis, which leaves the worker alive; no text waits without a worker.
C34_SpeechWorker ==
    /\ [](au_workers <= 1 /\ (speaking <=> au_workers = 1))
    /\ [](speech_queue # <<>> => au_workers = 1)
    /\ [](au_last.name = "played" => au_workers = 1)
    /\ [][/\ au_workers' > au_workers =>
               (au_workers = 0 /\ au_last'.name = "speak"
                  /\ au_last'.text # 0)
          /\ au_workers' < au_workers =>
               (speech_queue = <<>> /\ au_playing = None)
          /\ \A n \in 1..MaxMessages :
               (Queued(n) /\ ~Queued(n)') =>
                   (au_playing' = Some(n) \/ au_last'.name = "stop_all")]_vars
    /\ \A n \in 1..MaxMessages : Queued(n) ~> ~Queued(n)

\* C34 witness: a synthesis has failed while another text waited, the
\* worker is alive and the text still waits
C34_Witness ==
    /\ au_last.name = "played" /\ au_last.failed
    /\ speech_queue # <<>> /\ au_workers = 1 /\ au_playing = None


\* connection s is the last one registered under its id
Newest(s) == \A r \in Socks : r > s => socks[r].id # socks[s].id

\* C38: the cleanup of a reader thread removes from the client table only
\* the entry of the connection the thread served, never the entry another
\* connection holds under the same id; hence a connection that is open, has
\* its reader thread running and was not replaced is in the table.
C38_EntryOwnership ==
    /\ [][op'.name = "reader_exit" =>
             \A i \in DOMAIN clients :
                 clients[i].sock # op'.sock =>
                     \E j \in DOMAIN clients' : clients'[j] = clients[i]]_vars
    /\ [](\A s \in Socks :
             (socks[s].state = "open" /\ socks[s].reader = "running"
                 /\ Newest(s)) =>
                 \E i \in DOMAIN clients :
                     clients[i] = [id |-> socks[s].id, sock |-> s])


\* C39: the response to a stop_system command reaches the client that sent
\* it: the reader thread writes it before the spawned stop thread closes
\* the socket or empties the table, in every interleaving of the two.
C39_ResponseDelivered ==
    \A c \in Requesters : rp_reader[c] = "done" => rp_reply[c] = "delivered"


\* a vibration thread that was started and has not ended
Vibrating(n) == hp_thread[n].pc \notin {"none", "done"}

\* C40: at most one vibration thread is alive at any time, whatever the
\* calls of vibrate; a thread goes through its pattern at most once; and
\* the motor pin is low whenever no vibration thread is alive.
C40_OneVibration ==
    /\ Cardinality({n \in Vibrations : Vibrating(n)}) <= 1
    /\ \A n \in Vibrations : hp_thread[n].plays <= 1
    /\ (\A n \in Vibrations : ~Vibrating(n)) => hp_pin = 0

====
